---------------------------- MODULE Spec2Model ----------------------------
(***************************************************************************)
(* A model of the 2nd-Brain indexer: the SQLite store (database.py), the   *)
(* task orchestrator (orchestrator.py), the OCR / LLM / embedding services *)
(* (services/*.py) and the file watcher (watcher.py).                      *)
(*                                                                         *)
(* Time is counted in ticks of 5 s, the period of the hard-coded timeout   *)
(* check of the dispatcher.  Every reading of the clock in a tick is taken *)
(* to be later than every stamp written earlier, so "t - stamp > 5.0 * k"  *)
(* of the code is "now - stamp >= k" here.                                 *)
(***************************************************************************)
EXTENDS Integers, Sequences, FiniteSets, Bags, TLC

(***************************************************************************)
(* Bounds of the model.                                                    *)
(***************************************************************************)
\* largest file modification time that the file system hands out
MaxMtime == 2
\* most rows search_index may hold for one (path, source) in SpecIndex
MaxIndexRows == 2
\* most chunk_index of a content chunk (the summary row has chunk_index -1)
MaxChunk == 1
\* config max_workers: threads of the pool and slots of pool_semaphore
MaxWorkers == 2
\* config batch_size
BATCH_SIZE == 2
\* config task_timeout, in ticks
TASK_TIMEOUT == 1
\* most file-system events, or calls of submit_task by a client, in a run
MaxEvents == 2
\* most files the watched folder holds or has held
MaxFiles == 1
\* most actions of the user in the GUI in a run
MaxActions == 1
\* most _loop threads Screenshotter.load starts in a run
MaxLoops == 3
\* number of resume_pending calls in SpecResume
MaxResumes == 2
\* greatest dot product of a stored vector with the query vector, in steps
MaxSim == 2

(***************************************************************************)
(* Program constants, in ticks of 5 s.                                     *)
(***************************************************************************)
\* config flush_timeout, default 5.0 s
FLUSH_TIMEOUT == 1
\* the timeout check runs when more than 5.0 s have passed since the last one
CheckInterval == 1
\* time.time(): time is measured from the present, so a stamp taken k ticks ago
\* holds -k (Tick moves the stamps back instead of moving the clock forward)
now == 0
\* an age no comparison of the code or of the properties looks beyond
Late == TASK_TIMEOUT + CheckInterval + 1

(***************************************************************************)
(* Configuration (config.py) and the vocabulary of the store.              *)
(***************************************************************************)
image_extensions == {".png"}
text_extensions == {".txt"}

Paths == {"d/a.png", "d/b.txt"}

suffix(path) == IF path = "d/a.png" THEN ".png" ELSE ".txt"

TaskTypes == {"OCR", "EMBED", "EMBED_LLM", "LLM", "DELETE"}
Statuses == {"PENDING", "DONE", "FAILED"}
Sources == {"ocr", "embed", "llm"}
Mtimes == 0..MaxMtime
ChunkIndexes == (-1)..MaxChunk

IndexKeys == Paths \X Sources

ModelKeys == {"ocr", "text", "image", "llm"}
Threads == 1..MaxWorkers
\* the watched folder that holds the files of Paths
Dir == "d"

\* the Timer objects _debounce_task creates, one for every event
TimerIds == 1..MaxEvents
NoTimer == [path |-> Dir, pc |-> "none"]

VARIABLES
    db,             \* the store: tasks, ocr_results, embeddings, llm_analysis, search_index
    last_call,      \* the last call made on the store handle (SpecTasks, SpecIndex)
    loaded,         \* models[k].loaded
    orch,           \* the Orchestrator's memory: queue, buffers, stamps, semaphore, ...
    worker,         \* what each thread of the ThreadPoolExecutor is doing
    released,       \* per thread: pool_semaphore releases made for the job it runs
    dran,           \* the dispatcher has completed an iteration in this tick
    disk,           \* the mtime of each file on disk, 0 when the file is absent
    known_mtimes,   \* FileWatcherService._known_mtimes, 0 when the path has no entry
    pending_timers, \* DebouncedEventHandler.pending_timers: the paths that have an entry
    timers,         \* the threading.Timer threads of the handler (SpecDebounce)
    config,         \* Config: the config.json file and Config._settings (SpecConfig)
    search,         \* SearchEngine: the embeddings it reads and its last result (SpecSearch)
    race,           \* a submit_task call and a model toggle in progress (SpecRace)
    shot,           \* the Screenshotter object and its _loop threads (SpecShot)
    hist,           \* per path, what has happened to it (read by the properties only)
    events          \* file-system events and user actions so far

vars == <<db, last_call, loaded, orch, worker, released, dran,
          disk, known_mtimes, pending_timers, timers, config, search, race, shot,
             hist, events>>

sysvars_but_config == <<loaded, orch, worker, released, dran,
                        disk, known_mtimes, pending_timers, timers, race, shot,
                        hist, events>>

sysvars == <<loaded, orch, worker, released, dran,
             disk, known_mtimes, pending_timers, timers, config, search, race, shot,
             hist, events>>

(***************************************************************************)
(* The store (database.py).  tasks is the set of rows of the tasks table;  *)
(* ocr_results and llm_analysis are keyed by path alone; embeddings holds  *)
(* (path, chunk_index) rows; search_index is an FTS table without a key,   *)
(* so it is the number of its rows for every (path, source).               *)
(***************************************************************************)
\* the delete-side triggers; triggers is the set of those that exist
DeleteTriggers == {"t_embed_delete", "t_ocr_delete"}

EmptyStore ==
    [tasks |-> {}, ocr_results |-> {}, embeddings |-> {}, llm_analysis |-> {},
     search_index |-> [k \in IndexKeys |-> 0],
     triggers |-> DeleteTriggers]

RowsOf(T, path, task_type) ==
    {r \in T : r.path = path /\ r.task_type = task_type}

Max(S) == CHOOSE x \in S : \A y \in S : y <= x

\* a row of tasks.  rowid orders the rows of one path as their rowids do: a
\* new row comes after every row the table holds, an updated row keeps its place
TaskRow(T, path, task_type, status, mtime) ==
    [path |-> path, task_type |-> task_type, status |-> status, file_mtime |-> mtime,
     rowid |-> 1 + Max({0} \cup {r.rowid : r \in {x \in T : x.path = path}})]

\* mutant of add_or_update_task: the update overwrites file_mtime unconditionally
add_or_update_task_overwrites_mtime(S, path, task_type, status, mtime) ==
    LET conflict == RowsOf(S.tasks, path, task_type)
    IN  IF conflict = {}
        THEN [S EXCEPT !.tasks = S.tasks \cup
                                    {TaskRow(S.tasks, path, task_type, status, mtime)}]
        ELSE [S EXCEPT !.tasks = (S.tasks \ conflict) \cup
                 {[r EXCEPT !.status = status, !.file_mtime = mtime] : r \in conflict}]

\* INSERT ... ON CONFLICT(path, task_type) DO UPDATE SET status = excluded.status,
\* file_mtime = CASE WHEN excluded.file_mtime > 0 THEN excluded.file_mtime
\*              ELSE tasks.file_mtime END
add_or_update_task(S, path, task_type, status, mtime) ==
    LET conflict == RowsOf(S.tasks, path, task_type)
    IN  IF conflict = {}
        THEN [S EXCEPT !.tasks = S.tasks \cup
                                    {TaskRow(S.tasks, path, task_type, status, mtime)}]
        ELSE [S EXCEPT !.tasks = (S.tasks \ conflict) \cup
                 {[r EXCEPT !.status = status,
                            !.file_mtime = IF mtime > 0 THEN mtime ELSE r.file_mtime]
                     : r \in conflict}]

\* UPDATE tasks SET status = 'DONE' WHERE path = ? AND task_type = ?
mark_completed(S, path, task_type) ==
    [S EXCEPT !.tasks =
        {IF r.path = path /\ r.task_type = task_type
            THEN [r EXCEPT !.status = "DONE"] ELSE r : r \in S.tasks}]

\* SELECT path, task_type FROM tasks WHERE status = 'PENDING'
get_pending_tasks(S) ==
    {<<r.path, r.task_type>> : r \in {x \in S.tasks : x.status = "PENDING"}}

\* mutant of retry_all_failed: the UPDATE has no WHERE clause
retry_all_failed_every_row(S) ==
    [S EXCEPT !.tasks = {[r EXCEPT !.status = "PENDING"] : r \in S.tasks}]

\* UPDATE tasks SET status = 'PENDING' WHERE status != 'DONE'
retry_all_failed(S) ==
    [S EXCEPT !.tasks =
        {IF r.status # "DONE" THEN [r EXCEPT !.status = "PENDING"] ELSE r
            : r \in S.tasks}]

\* the source tag the embeddings triggers give a row
SourceOf(chunk_index) == IF chunk_index < 0 THEN "llm" ELSE "embed"

\* INSERT OR REPLACE INTO ocr_results.  REPLACE removes a row with the same
\* path without firing t_ocr_delete (recursive_triggers is never switched on,
\* and SQLite fires delete triggers for REPLACE only when it is); t_ocr_insert
\* then adds one search_index row.
save_ocr_result(S, path) ==
    [S EXCEPT !.ocr_results = (S.ocr_results \ {path}) \cup {path},
              !.search_index[<<path, "ocr">>] = @ + 1]

\* INSERT OR REPLACE INTO llm_analysis: the table has no trigger
save_llm_result(S, path) ==
    [S EXCEPT !.llm_analysis = (S.llm_analysis \ {path}) \cup {path}]

\* SELECT response FROM llm_analysis WHERE path = ?
get_llm_result(S, path) == path \in S.llm_analysis

\* executemany(INSERT INTO embeddings ...): row after row, t_embed_insert adding
\* one search_index row for each; a row whose (path, chunk_index) is already
\* there raises IntegrityError, which ends the call and leaves what was done
RECURSIVE InsertEmbeddings(_, _, _)
InsertEmbeddings(S, data, i) ==
    IF i > Len(data) THEN S
    ELSE IF data[i] \in S.embeddings THEN S
    ELSE InsertEmbeddings(
            [S EXCEPT !.embeddings = @ \cup {data[i]},
                      !.search_index[<<data[i].path, SourceOf(data[i].chunk_index)>>] = @ + 1],
            data, i + 1)

\* save_embeddings(data): wipe the old rows of the referenced paths in the
\* sign class written (t_embed_delete removes every search_index row of the
\* path with that source), then insert the new rows
save_embeddings(S, data) ==
    LET paths == {data[i].path : i \in 1..Len(data)}
        is_llm_update == \E i \in 1..Len(data) : data[i].chunk_index < 0
        old == {e \in S.embeddings :
                    /\ e.path \in paths
                    /\ IF is_llm_update THEN e.chunk_index < 0 ELSE e.chunk_index >= 0}
        wiped == [S EXCEPT
                    !.embeddings = @ \ old,
                    !.search_index = [k \in IndexKeys |->
                        IF /\ "t_embed_delete" \in S.triggers
                           /\ \E e \in old : k = <<e.path, SourceOf(e.chunk_index)>>
                        THEN 0 ELSE @[k]]]
    IN  InsertEmbeddings(wiped, data, 1)

\* the five DELETE ... WHERE path IN (paths) statements of remove_tasks_bulk,
\* in the order of the code; they run while the delete triggers are dropped
BulkStatements == <<"ocr_results", "embeddings", "llm_analysis", "search_index", "tasks">>

DeleteIn(S, table, paths) ==
    CASE table = "ocr_results" -> [S EXCEPT !.ocr_results = @ \ paths]
      [] table = "embeddings" -> [S EXCEPT !.embeddings = {e \in @ : e.path \notin paths}]
      [] table = "llm_analysis" -> [S EXCEPT !.llm_analysis = @ \ paths]
      [] table = "search_index" ->
            [S EXCEPT !.search_index = [k \in IndexKeys |->
                                            IF k[1] \in paths THEN 0 ELSE @[k]]]
      [] table = "tasks" -> [S EXCEPT !.tasks = {r \in @ : r.path \notin paths}]

\* the first done statements of remove_tasks_bulk
RECURSIVE BulkDelete(_, _, _)
BulkDelete(S, paths, done) ==
    IF done = 0 THEN S
    ELSE DeleteIn(BulkDelete(S, paths, done - 1), BulkStatements[done], paths)

\* remove_tasks_bulk(paths) when its first done DELETE statements succeed and
\* the next one raises (done = 5: none raises).  Nothing is rolled back: the
\* except block logs and returns False, and the finally block runs
\* executescript, which commits what the statements have done and creates
\* the triggers again; restored tells whether that script succeeds
BulkRun(S, paths, done, restored) ==
    LET T == IF restored THEN DeleteTriggers
             ELSE IF paths = {} THEN S.triggers ELSE {}
    IN  [(IF paths = {} THEN S ELSE BulkDelete(S, paths, done)) EXCEPT !.triggers = T]

\* remove_tasks_bulk(paths): the two delete triggers are dropped, the rows of
\* the paths are deleted from all five tables, the triggers are created again
remove_tasks_bulk(S, paths) == BulkRun(S, paths, Len(BulkStatements), TRUE)

SetStatus(T, task_type, status) ==
    {IF r.task_type = task_type THEN [r EXCEPT !.status = status] ELSE r : r \in T}

\* the statements of reset_service_data(service_key) between the commit of
\* the DROP TRIGGERs and the final commit, in the order of the code
ResetStatements(service_key) ==
    CASE service_key = "OCR" ->
            <<"DELETE search_index ocr", "DELETE ocr_results", "UPDATE tasks OCR">>
      [] service_key = "EMBED" ->
            <<"DELETE search_index embed", "DELETE search_index llm", "DELETE embeddings",
              "UPDATE tasks EMBED", "UPDATE tasks EMBED_LLM">>
      [] service_key = "LLM" ->
            <<"DELETE llm_analysis", "UPDATE tasks LLM", "DELETE tasks EMBED_LLM",
              "DELETE search_index llm", "DELETE embeddings summary">>
      [] OTHER -> <<>>

ClearSource(S, source) ==
    [S EXCEPT !.search_index = [k \in IndexKeys |-> IF k[2] = source THEN 0 ELSE @[k]]]

Execute(S, statement) ==
    CASE statement = "DELETE search_index ocr" -> ClearSource(S, "ocr")
      [] statement = "DELETE search_index embed" -> ClearSource(S, "embed")
      [] statement = "DELETE search_index llm" -> ClearSource(S, "llm")
      [] statement = "DELETE ocr_results" -> [S EXCEPT !.ocr_results = {}]
      [] statement = "DELETE embeddings" -> [S EXCEPT !.embeddings = {}]
      [] statement = "DELETE embeddings summary" ->
            [S EXCEPT !.embeddings = {e \in @ : e.chunk_index >= 0}]
      [] statement = "DELETE llm_analysis" -> [S EXCEPT !.llm_analysis = {}]
      [] statement = "DELETE tasks EMBED_LLM" ->
            [S EXCEPT !.tasks = {r \in @ : r.task_type # "EMBED_LLM"}]
      [] statement = "UPDATE tasks OCR" -> [S EXCEPT !.tasks = SetStatus(@, "OCR", "PENDING")]
      [] statement = "UPDATE tasks EMBED" ->
            [S EXCEPT !.tasks = SetStatus(@, "EMBED", "PENDING")]
      [] statement = "UPDATE tasks EMBED_LLM" ->
            [S EXCEPT !.tasks = SetStatus(@, "EMBED_LLM", "PENDING")]
      [] statement = "UPDATE tasks LLM" -> [S EXCEPT !.tasks = SetStatus(@, "LLM", "PENDING")]

RECURSIVE ExecuteAll(_, _, _)
ExecuteAll(S, statements, done) ==
    IF done = 0 THEN S
    ELSE Execute(ExecuteAll(S, statements, done - 1), statements[done])

\* reset_service_data(service_key) when its first done statements succeed and
\* the next one raises (done = Len: none raises).  The DROP TRIGGERs are
\* committed first; the except block logs; the finally block creates the
\* triggers and commits, and logs "Failed to restore triggers" when that
\* raises (restored = FALSE)
ResetRun(S, service_key, done, restored) ==
    [ExecuteAll(S, ResetStatements(service_key), done) EXCEPT
        !.triggers = IF restored THEN DeleteTriggers ELSE {}]

\* reset_service_data(service_key), service_key in 'OCR', 'EMBED', 'LLM'
reset_service_data(S, service_key) ==
    ResetRun(S, service_key, Len(ResetStatements(service_key)), TRUE)

HasTask(T, path, task_type) == RowsOf(T, path, task_type) # {}

\* mutant of validate_integrity: the zombie reset of EMBED and EMBED_LLM looks
\* for any embeddings row of the path, whatever the sign of its chunk_index
validate_integrity_any_chunk(S) ==
    LET ocr_orphans == {p \in S.ocr_results : ~HasTask(S.tasks, p, "OCR")}
        emb_orphans == {e \in S.embeddings :
                            IF e.chunk_index >= 0
                            THEN ~HasTask(S.tasks, e.path, "EMBED")
                            ELSE ~HasTask(S.tasks, e.path, "EMBED_LLM")}
        llm_orphans == {p \in S.llm_analysis : ~HasTask(S.tasks, p, "LLM")}
        ocr == S.ocr_results \ ocr_orphans
        emb == S.embeddings \ emb_orphans
        llm == S.llm_analysis \ llm_orphans
        HasArtifact(r) ==
            CASE r.task_type = "OCR" -> r.path \in ocr
              [] r.task_type \in {"EMBED", "EMBED_LLM"} -> \E e \in emb : e.path = r.path
              [] r.task_type = "LLM" -> r.path \in llm
              [] OTHER -> TRUE
    IN  [tasks |-> {IF r.status = "DONE" /\ ~HasArtifact(r)
                        THEN [r EXCEPT !.status = "PENDING"] ELSE r : r \in S.tasks},
         ocr_results |-> ocr,
         embeddings |-> emb,
         llm_analysis |-> llm,
         search_index |-> [k \in IndexKeys |->
            IF \/ /\ "t_ocr_delete" \in S.triggers
                  /\ k[2] = "ocr" /\ k[1] \in ocr_orphans
               \/ /\ "t_embed_delete" \in S.triggers
                  /\ \E e \in emb_orphans : k = <<e.path, SourceOf(e.chunk_index)>>
            THEN 0 ELSE S.search_index[k]],
         triggers |-> S.triggers]

\* validate_integrity: the orphan purge (the delete triggers are in place and
\* clear the search_index rows of the purged paths), then the zombie reset
validate_integrity(S) ==
    LET ocr_orphans == {p \in S.ocr_results : ~HasTask(S.tasks, p, "OCR")}
        emb_orphans == {e \in S.embeddings :
                            IF e.chunk_index >= 0
                            THEN ~HasTask(S.tasks, e.path, "EMBED")
                            ELSE ~HasTask(S.tasks, e.path, "EMBED_LLM")}
        llm_orphans == {p \in S.llm_analysis : ~HasTask(S.tasks, p, "LLM")}
        ocr == S.ocr_results \ ocr_orphans
        emb == S.embeddings \ emb_orphans
        llm == S.llm_analysis \ llm_orphans
        HasArtifact(r) ==
            CASE r.task_type = "OCR" -> r.path \in ocr
              [] r.task_type = "EMBED" ->
                    \E e \in emb : e.path = r.path /\ e.chunk_index >= 0
              [] r.task_type = "LLM" -> r.path \in llm
              [] r.task_type = "EMBED_LLM" ->
                    \E e \in emb : e.path = r.path /\ e.chunk_index < 0
              [] OTHER -> TRUE
    IN  [tasks |-> {IF r.status = "DONE" /\ ~HasArtifact(r)
                        THEN [r EXCEPT !.status = "PENDING"] ELSE r : r \in S.tasks},
         ocr_results |-> ocr,
         embeddings |-> emb,
         llm_analysis |-> llm,
         search_index |-> [k \in IndexKeys |->
            IF \/ /\ "t_ocr_delete" \in S.triggers
                  /\ k[2] = "ocr" /\ k[1] \in ocr_orphans
               \/ /\ "t_embed_delete" \in S.triggers
                  /\ \E e \in emb_orphans : k = <<e.path, SourceOf(e.chunk_index)>>
            THEN 0 ELSE S.search_index[k]],
         triggers |-> S.triggers]

(***************************************************************************)
(* SpecTasks: the task ledger under any sequence of calls on the handle.   *)
(***************************************************************************)
NoCall == [op |-> "none"]

Call(op, path, task_type, status, mtime) ==
    [op |-> op, path |-> path, task_type |-> task_type, status |-> status,
     mtime |-> mtime]

\* the OCR and LLM rows the watcher creates: OCR for images only
LedgerKeys == {<<"d/a.png", "OCR">>, <<"d/a.png", "LLM">>, <<"d/b.txt", "LLM">>}

\* the statuses the callers of add_or_update_task pass (DONE is written by
\* mark_completed alone)
UpsertStatuses == {"PENDING", "FAILED"}

Job(priority, task_type, path) ==
    [priority |-> priority, task_type |-> task_type, path |-> path]

Idle == [pc |-> "idle"]

\* Orchestrator.__init__
\* the task types that run through _execute_job_wrapper, and the keys of active_jobs
JobTypes == {"OCR", "LLM", "EMBED_LLM"}
Keys == Paths \X JobTypes
NoEntry == [start_time |-> 1, owner |-> 0]

InitOrchestrator ==
    [queue |-> EmptyBag,
     executor |-> <<>>,
     pool_semaphore |-> MaxWorkers,
     text_buffer |-> <<>>, last_text_flush |-> 0,
     image_buffer |-> <<>>, last_image_flush |-> 0,
     delete_buffer |-> <<>>, last_delete_flush |-> 0,
     active_jobs |-> [k \in Keys |-> NoEntry],
     last_timeout_check |-> 0]

\* executed: a DELETE batch removed the path and the watcher has not submitted
\*   it since;
\* stage: "deleting" once an ingested path was deleted on disk, "gone" once its
\*   DELETE batch ran, "reported" once a live event for the file was handled;
\* twice: a job was submitted while an equal one was still waiting in the queue
(***************************************************************************)
(* Config (config.py).  A dict is a function on ConfigKeys whose value is  *)
(* Absent for a key the dict does not have; values are written as text.    *)
(***************************************************************************)
RecognizedKeys == {"batch_size", "max_workers", "sync_directories"}
\* the keys of DEFAULT_CONFIG and a key of config.json that DEFAULT_CONFIG lacks
ConfigKeys == RecognizedKeys \cup {"theme"}

Absent == "<absent>"
None == "None"

DEFAULT_CONFIG ==
    [k \in ConfigKeys |->
        CASE k = "batch_size" -> "16"
          [] k = "max_workers" -> "6"
          [] k = "sync_directories" -> "Z:/My Drive, Screenshots"
          [] OTHER -> Absent]

\* defaults = DEFAULT_CONFIG.copy(); defaults["sync_directories"] = [..., data_dir / "Screenshots"]
Defaults == [DEFAULT_CONFIG EXCEPT !["sync_directories"] = "Z:/My Drive, data_dir/Screenshots"]

EmptyDict == [k \in ConfigKeys |-> Absent]

\* the contents config.json can have: a JSON object that gives a key its
\* default, another value, or nothing; or text that is not JSON
JsonObjects == [ConfigKeys -> {Absent, "custom"}]
                \cup {[d EXCEPT ![k] = DEFAULT_CONFIG[k]] : d \in [ConfigKeys -> {Absent, "custom"}],
                                                           k \in {"batch_size"}}
ConfigFiles == {[kind |-> "absent", data |-> EmptyDict], [kind |-> "malformed", data |-> EmptyDict]}
                \cup {[kind |-> "json", data |-> d] : d \in JsonObjects}

\* Config._load: the settings it returns and the file it leaves
_load(file) ==
    CASE file.kind = "absent" ->
            [_settings |-> Defaults, file |-> [kind |-> "json", data |-> Defaults]]
      [] file.kind = "malformed" -> [_settings |-> Defaults, file |-> file]
      [] OTHER -> [_settings |-> file.data, file |-> file]

\* Config.get(key, default=None): self._settings.get(key, default)
get(_settings, key, default) ==
    IF _settings[key] # Absent THEN _settings[key] ELSE default

\* no Config object has been constructed; no SearchEngine call has been made
NoConfig == [file |-> [kind |-> "absent", data |-> EmptyDict], _settings |-> EmptyDict,
             loaded |-> FALSE]
NoSearch == [op |-> "none"]

\* no submit_task call and no toggle is in progress
NoRace == [submit |-> 0, available |-> FALSE, task_type |-> "", path |-> "", mtime |-> 0,
           toggle |-> "idle", key |-> "", n |-> 0]

\* Screenshotter.__init__: not loaded, no thread, the stop event clear; loops
\* holds the position of every _loop thread and whether unload has stopped
\* it, call the position of the caller of unload
NoShot == [loaded |-> FALSE, _stop_event |-> FALSE, thread |-> 0, call |-> "none",
           loops |-> [i \in 1..MaxLoops |-> [pc |-> "none", stopped |-> FALSE]]]

NoHistory == [executed |-> FALSE, stage |-> "none", twice |-> FALSE]

\* the application started on an empty store and an empty folder
InitSystem ==
    /\ loaded = [k \in ModelKeys |-> TRUE]
    /\ orch = InitOrchestrator
    /\ worker = [i \in Threads |-> Idle]
    /\ released = [i \in Threads |-> 0]
    /\ dran = FALSE
    /\ disk = [p \in Paths |-> 0]
    /\ known_mtimes = [p \in Paths |-> 0]
    /\ pending_timers = {}
    /\ timers = [k \in TimerIds |-> NoTimer]
    /\ config = NoConfig
    /\ search = NoSearch
    /\ race = NoRace
    /\ shot = NoShot
    /\ hist = [p \in Paths |-> NoHistory]
    /\ events = 0

InitStore ==
    /\ db = EmptyStore
    /\ last_call = NoCall
    /\ InitSystem

TasksUpsert(path, task_type, status, mtime) ==
    /\ db' = add_or_update_task(db, path, task_type, status, mtime)
    /\ last_call' = Call("add_or_update_task", path, task_type, status, mtime)
    /\ UNCHANGED sysvars

TasksMarkCompleted(path, task_type) ==
    /\ db' = mark_completed(db, path, task_type)
    /\ last_call' = Call("mark_completed", path, task_type, "DONE", 0)
    /\ UNCHANGED sysvars

TasksRemoveBulk(paths) ==
    /\ db' = remove_tasks_bulk(db, paths)
    /\ last_call' = [op |-> "remove_tasks_bulk", paths |-> paths]
    /\ UNCHANGED sysvars

NextTasks ==
    \/ \E k \in LedgerKeys, st \in UpsertStatuses, m \in Mtimes :
            TasksUpsert(k[1], k[2], st, m)
    \/ \E k \in LedgerKeys : TasksMarkCompleted(k[1], k[2])
    \/ \E ps \in SUBSET Paths : TasksRemoveBulk(ps)

SpecTasks == InitStore /\ [][NextTasks]_vars

\* the "Retry Tasks" setting: one UPDATE and its commit under the lock
TasksRetryAllFailed ==
    /\ db' = retry_all_failed(db)
    /\ last_call' = [op |-> "retry_all_failed",
                     failed |-> Cardinality({r \in db.tasks : r.status = "FAILED"})]
    /\ UNCHANGED sysvars

SpecLedger == InitStore /\ [][NextTasks \/ TasksRetryAllFailed]_vars

\* C8: add_or_update_task sets the row's status to the supplied status and
\* file_mtime to the supplied mtime only when that is > 0 (a new row takes the
\* supplied mtime as it is); after every call the table holds at most one row
\* for each (path, task_type), exactly one for the key just upserted, and no
\* call replaces a stored file_mtime > 0 by 0.
C8_Step ==
    /\ \A p \in Paths, tt \in TaskTypes : Cardinality(RowsOf(db'.tasks, p, tt)) <= 1
    /\ last_call'.op = "add_or_update_task" =>
        LET c == last_call'
            old == RowsOf(db.tasks, c.path, c.task_type)
            new == RowsOf(db'.tasks, c.path, c.task_type)
        IN  /\ Cardinality(new) = 1
            /\ \A r \in new :
                /\ r.status = c.status
                /\ r.file_mtime =
                        IF c.mtime > 0 \/ old = {} THEN c.mtime
                        ELSE (CHOOSE o \in old : TRUE).file_mtime
            /\ \A r \in db.tasks :
                    (r.path # c.path \/ r.task_type # c.task_type) => r \in db'.tasks
    /\ \A r \in db.tasks, q \in db'.tasks :
            (q.path = r.path /\ q.task_type = r.task_type /\ r.file_mtime > 0)
                => q.file_mtime > 0

C8_UpsertKeepsLedger == [][C8_Step]_vars

\* C8 witness: an upsert with mtime 0 has just acted on a row that keeps its
\* positive file_mtime and carries the supplied status
C8_Witness ==
    /\ last_call.op = "add_or_update_task"
    /\ last_call.mtime = 0
    /\ last_call.status = "FAILED"
    /\ \E r \in db.tasks :
        /\ r.path = last_call.path
        /\ r.task_type = last_call.task_type
        /\ r.status = "FAILED"
        /\ r.file_mtime > 0

(***************************************************************************)
(* SpecIndex: artifacts and search_index under any sequence of store calls *)
(***************************************************************************)
IndexTypes == {"OCR", "EMBED"}

EmbeddingRows == [path : Paths, chunk_index : ChunkIndexes]

\* the batches handed to save_embeddings: one or two rows
EmbeddingData == {<<r>> : r \in EmbeddingRows} \cup (EmbeddingRows \X EmbeddingRows)

IndexUpsert(path, task_type) ==
    /\ db' = add_or_update_task(db, path, task_type, "PENDING", 0)
    /\ last_call' = [op |-> "add_or_update_task"]
    /\ UNCHANGED sysvars

IndexSaveOcr(path) ==
    /\ db.search_index[<<path, "ocr">>] < MaxIndexRows
    /\ db' = save_ocr_result(db, path)
    /\ last_call' = [op |-> "save_ocr_result"]
    /\ UNCHANGED sysvars

IndexSaveEmbeddings(data) ==
    /\ db' = save_embeddings(db, data)
    /\ last_call' = [op |-> "save_embeddings"]
    /\ UNCHANGED sysvars

IndexRemoveBulk(paths) ==
    /\ db' = remove_tasks_bulk(db, paths)
    /\ last_call' = [op |-> "remove_tasks_bulk"]
    /\ UNCHANGED sysvars

IndexResetService(service_key) ==
    /\ db' = reset_service_data(db, service_key)
    /\ last_call' = [op |-> "reset_service_data"]
    /\ UNCHANGED sysvars

IndexValidateIntegrity ==
    /\ db' = validate_integrity(db)
    /\ last_call' = [op |-> "validate_integrity"]
    /\ UNCHANGED sysvars

NextIndex ==
    \/ \E p \in Paths, tt \in IndexTypes : IndexUpsert(p, tt)
    \/ \E p \in Paths : IndexSaveOcr(p)
    \/ \E data \in EmbeddingData : IndexSaveEmbeddings(data)
    \/ \E ps \in SUBSET Paths : IndexRemoveBulk(ps)
    \/ \E k \in {"OCR", "EMBED", "LLM"} : IndexResetService(k)
    \/ IndexValidateIntegrity

SpecIndex == InitStore /\ [][NextIndex]_vars

(***************************************************************************)
(* SpecAdmin: the bulk operations of the store when a statement can raise. *)
(* returned is what the caller gets: "None", "True", "False", or "raised"  *)
(* when the exception of the finally block leaves the method.              *)
(***************************************************************************)
AdminSaveEmbeddings(data) ==
    /\ \A i \in 1..Len(data) :
            db.search_index[<<data[i].path, SourceOf(data[i].chunk_index)>>] < MaxIndexRows
    /\ db' = save_embeddings(db, data)
    /\ last_call' = [op |-> "save_embeddings"]
    /\ UNCHANGED sysvars

AdminSaveLlm(path) ==
    /\ db' = save_llm_result(db, path)
    /\ last_call' = [op |-> "save_llm_result"]
    /\ UNCHANGED sysvars

AdminRemoveBulk(paths, done, restored) ==
    /\ db' = BulkRun(db, paths, done, restored)
    /\ last_call' = [op |-> "remove_tasks_bulk", paths |-> paths,
                     returned |-> IF ~restored THEN "raised"
                                  ELSE IF paths = {} THEN "None"
                                  ELSE IF done = Len(BulkStatements) THEN "True"
                                  ELSE "False"]
    /\ UNCHANGED sysvars

AdminResetService(service_key, done, restored) ==
    /\ done <= Len(ResetStatements(service_key))
    /\ db' = ResetRun(db, service_key, done, restored)
    /\ last_call' = [op |-> "reset_service_data", service_key |-> service_key,
                     returned |-> "None"]
    /\ UNCHANGED sysvars

\* the store holds the rows of one image
AdminPaths == {"d/a.png"}

NextAdmin ==
    \/ \E p \in AdminPaths, tt \in {"OCR", "EMBED", "LLM"} : IndexUpsert(p, tt)
    \/ \E p \in AdminPaths : IndexSaveOcr(p)
    \/ \E r \in {x \in EmbeddingRows : x.path \in AdminPaths} : AdminSaveEmbeddings(<<r>>)
    \/ \E p \in AdminPaths : AdminSaveLlm(p)
    \/ \E ps \in SUBSET AdminPaths, done \in 0..Len(BulkStatements), restored \in BOOLEAN :
            AdminRemoveBulk(ps, done, restored)
    \/ \E k \in {"OCR", "EMBED", "LLM"}, done \in 0..Len(BulkStatements),
          restored \in BOOLEAN : AdminResetService(k, done, restored)

SpecAdmin == InitStore /\ [][NextAdmin]_vars

(***************************************************************************)
(* SpecAtomic: save_embeddings when the INSERT raises.  Every method runs  *)
(* on the one connection of the Database object: a statement opens a       *)
(* transaction, conn.commit() ends it, and no method calls rollback.  db   *)
(* is what the connection reads; last_call.committed is what the file      *)
(* holds, the state at the last conn.commit().                             *)
(***************************************************************************)
\* the rows the DELETE of save_embeddings(data) removes
OldRows(S, data) ==
    LET paths == {data[i].path : i \in 1..Len(data)}
        is_llm_update == \E i \in 1..Len(data) : data[i].chunk_index < 0
    IN  {e \in S.embeddings :
            /\ e.path \in paths
            /\ IF is_llm_update THEN e.chunk_index < 0 ELSE e.chunk_index >= 0}

\* executemany raises IntegrityError: a row of data has the key of a row
\* the DELETE has left, or of an earlier row of data
InsertRaises(S, data) ==
    \E i \in 1..Len(data) :
        data[i] \in (S.embeddings \ OldRows(S, data)) \cup {data[j] : j \in 1..(i - 1)}

Committed == IF last_call = NoCall THEN EmptyStore ELSE last_call.committed

\* save_embeddings(data): conn.commit() is skipped when executemany raises
AtomicSaveEmbeddings(data) ==
    /\ db' = save_embeddings(db, data)
    /\ last_call' = [op |-> "save_embeddings", raised |-> InsertRaises(db, data),
                     deleted |-> OldRows(db, data),
                     committed |-> IF InsertRaises(db, data) THEN Committed ELSE db']
    /\ UNCHANGED sysvars

\* add_or_update_task(path, task_type): its conn.commit() ends the open transaction
AtomicUpsert(path, task_type) ==
    /\ db' = add_or_update_task(db, path, task_type, "PENDING", 0)
    /\ last_call' = [op |-> "add_or_update_task", raised |-> FALSE, committed |-> db']
    /\ UNCHANGED sysvars

SpecAtomic ==
    InitStore /\ [][\/ \E data \in EmbeddingData :
                            /\ \A i \in 1..Len(data) : data[i].path \in AdminPaths
                            /\ AtomicSaveEmbeddings(data)
                    \/ \E p \in AdminPaths : AtomicUpsert(p, "EMBED")]_vars

(***************************************************************************)
(* SpecSweep: validate_integrity on the stores a session can leave behind. *)
(***************************************************************************)
\* the four artifact families and the task type of each
Families == {"OCR", "EMBED", "LLM", "EMBED_LLM"}

\* the tasks tables with at most one row for each family of the one path,
\* in any status; Rank gives the rows of a path distinct rowids
Rank(task_type) ==
    CASE task_type = "EMBED" -> 1 [] task_type = "LLM" -> 2
      [] task_type = "OCR" -> 3 [] task_type = "EMBED_LLM" -> 4

LeftTasks ==
    {{[path |-> p, task_type |-> tt, status |-> st[tt], file_mtime |-> 1,
       rowid |-> Rank(tt)] : tt \in present, p \in AdminPaths}
        : present \in SUBSET Families, st \in [Families -> Statuses]}

\* every combination of task rows and artifact rows: orphans and zombies are
\* left by deletions, resets and failed jobs that overlap running work, and
\* search_index has one row for every artifact row that the triggers index
InitSweep ==
    /\ \E T \in LeftTasks, O \in SUBSET AdminPaths, L \in SUBSET AdminPaths,
          E \in SUBSET {x \in EmbeddingRows : x.path \in AdminPaths} :
            db = [tasks |-> T, ocr_results |-> O, embeddings |-> E, llm_analysis |-> L,
                  search_index |-> [k \in IndexKeys |->
                        IF k[2] = "ocr" THEN (IF k[1] \in O THEN 1 ELSE 0)
                        ELSE Cardinality({e \in E : e.path = k[1]
                                            /\ SourceOf(e.chunk_index) = k[2]})],
                  triggers |-> DeleteTriggers]
    /\ last_call = NoCall
    /\ InitSystem

\* an orphan: an artifact row of S without the task row of its family
Orphans(S) ==
    {<<"OCR", p>> : p \in {x \in S.ocr_results : ~HasTask(S.tasks, x, "OCR")}}
    \cup {<<"LLM", p>> : p \in {x \in S.llm_analysis : ~HasTask(S.tasks, x, "LLM")}}
    \cup {<<"EMBED", e>> : e \in {x \in S.embeddings :
                ~HasTask(S.tasks, x.path,
                         IF x.chunk_index >= 0 THEN "EMBED" ELSE "EMBED_LLM")}}

\* the artifact of task row r is in S
ArtifactOf(S, r) ==
    CASE r.task_type = "OCR" -> r.path \in S.ocr_results
      [] r.task_type = "LLM" -> r.path \in S.llm_analysis
      [] r.task_type = "EMBED" ->
            \E e \in S.embeddings : e.path = r.path /\ e.chunk_index >= 0
      [] r.task_type = "EMBED_LLM" ->
            \E e \in S.embeddings : e.path = r.path /\ e.chunk_index < 0
      [] OTHER -> TRUE

\* a zombie: a DONE task row of S without its artifact
Zombies(S) == {r \in S.tasks : r.status = "DONE" /\ ~ArtifactOf(S, r)}

\* Database.__init__ starts validate_integrity, which runs under the lock
Sweep ==
    /\ last_call = NoCall
    /\ db' = validate_integrity(db)
    /\ last_call' = [op |-> "validate_integrity",
                     orphans |-> Cardinality(Orphans(db)),
                     zombies |-> Cardinality(Zombies(db))]
    /\ UNCHANGED sysvars

SpecSweep == InitSweep /\ [][Sweep]_vars

\* C7: for every path, search_index holds as many 'ocr' rows as ocr_results has
\* rows for the path, as many 'embed' rows as embeddings has rows with
\* chunk_index >= 0, and as many 'llm' rows as embeddings has rows with
\* chunk_index < 0
C7_SearchIndexInSync ==
    \A p \in Paths :
        /\ db.search_index[<<p, "ocr">>] = Cardinality(db.ocr_results \cap {p})
        /\ db.search_index[<<p, "embed">>] =
                Cardinality({e \in db.embeddings : e.path = p /\ e.chunk_index >= 0})
        /\ db.search_index[<<p, "llm">>] =
                Cardinality({e \in db.embeddings : e.path = p /\ e.chunk_index < 0})

(***************************************************************************)
(* The orchestrator (orchestrator.py).  A method that changes the store,   *)
(* the orchestrator's memory or the release counts is an operator from the *)
(* world before the call to the world after it.                            *)
(***************************************************************************)
World == [db |-> db, orch |-> orch, released |-> released]

Min(S) == CHOOSE x \in S : \A y \in S : x <= y

is_model_available(task_type) ==
    CASE task_type = "OCR" -> loaded["ocr"]
      [] task_type = "EMBED" -> loaded["text"] /\ loaded["image"]
      [] task_type = "EMBED_LLM" -> loaded["text"]
      [] task_type = "LLM" -> loaded["llm"]
      [] task_type = "DELETE" -> TRUE
      [] OTHER -> FALSE

submit_task(W, task_type, path, priority, mtime) ==
    LET W1 == [W EXCEPT !.db = add_or_update_task(@, path, task_type, "PENDING", mtime)]
    IN  IF is_model_available(task_type)
        THEN [W1 EXCEPT !.orch.queue = @ (+) SetToBag({Job(priority, task_type, path)})]
        ELSE W1

\* for path, t_type in pending: if t_type == task_type: queue.put(Job(2, t_type, path))
RECURSIVE PutPending(_, _, _)
PutPending(W, pending, task_type) ==
    IF pending = {} THEN W
    ELSE LET x == CHOOSE y \in pending : TRUE
             W1 == IF x[2] = task_type
                   THEN [W EXCEPT !.orch.queue = @ (+) SetToBag({Job(2, x[2], x[1])})]
                   ELSE W
         IN  PutPending(W1, pending \ {x}, task_type)

\* mutant of resume_pending: the rows are not filtered by status
resume_pending_any_status(W, task_type) ==
    PutPending(W, {<<r.path, r.task_type>> : r \in W.db.tasks}, task_type)

resume_pending(W, task_type) == PutPending(W, get_pending_tasks(W.db), task_type)

\* pool_semaphore.release(); the semaphore is bounded by max_workers
Release(n) == IF n < MaxWorkers THEN n + 1 ELSE n

\* flushed: for an embedding batch, when _flush_buffer_embed handed it to the pool
PoolTask(kind, jobs, batch_type) ==
    [kind |-> kind, jobs |-> jobs, batch_type |-> batch_type, flushed |-> now]

\* mutant of _flush_buffer_embed: the buffer is not cleared after the snapshot
_flush_buffer_embed_keeps_buffer(W, batch_type) ==
    LET target_buffer == IF batch_type = "text" THEN W.orch.text_buffer
                         ELSE W.orch.image_buffer
    IN  IF target_buffer = <<>> THEN W
        ELSE [W EXCEPT !.orch.executor =
                        Append(@, PoolTask("embed", target_buffer, batch_type))]

_flush_buffer_embed(W, batch_type) ==
    LET target_buffer == IF batch_type = "text" THEN W.orch.text_buffer
                         ELSE W.orch.image_buffer
        submitted == [W EXCEPT !.orch.executor =
                        Append(@, PoolTask("embed", target_buffer, batch_type))]
    IN  IF target_buffer = <<>> THEN W
        ELSE IF batch_type = "text"
        THEN [submitted EXCEPT !.orch.text_buffer = <<>>, !.orch.last_text_flush = now]
        ELSE [submitted EXCEPT !.orch.image_buffer = <<>>, !.orch.last_image_flush = now]

_flush_buffer_delete(W) ==
    IF W.orch.delete_buffer = <<>> THEN W
    ELSE [W EXCEPT !.orch.delete_buffer = <<>>,
                   !.orch.last_delete_flush = now,
                   !.orch.executor = Append(@, PoolTask("delete", W.orch.delete_buffer, ""))]

\* the body of the loop over to_remove in _check_timeouts
RECURSIVE TimeOut(_, _)
TimeOut(W, to_remove) ==
    IF to_remove = {} THEN W
    ELSE LET key == CHOOSE k \in to_remove : TRUE
             entry == W.orch.active_jobs[key]
             W1 == IF entry = NoEntry THEN W
                   ELSE [W EXCEPT
                            !.orch.active_jobs[key] = NoEntry,
                            !.db = add_or_update_task(@, key[1], key[2], "FAILED", 0),
                            !.orch.pool_semaphore = Release(@),
                            !.released[entry.owner] = @ + 1]
         IN  TimeOut(W1, to_remove \ {key})

_check_timeouts(W) ==
    TimeOut(W, {k \in Keys : /\ W.orch.active_jobs[k] # NoEntry
                             /\ now - W.orch.active_jobs[k].start_time >= TASK_TIMEOUT})

\* the routing of a dequeued job in _dispatch_loop; the slot is held on entry
Route(W, job) ==
    LET ext == suffix(job.path)
        freed == [W EXCEPT !.orch.pool_semaphore = Release(@)]
    IN  CASE job.task_type = "EMBED" ->
                IF ext \in image_extensions
                THEN LET W1 == [freed EXCEPT !.orch.image_buffer = Append(@, job)]
                     IN  IF Len(W1.orch.image_buffer) >= BATCH_SIZE
                         THEN _flush_buffer_embed(W1, "image") ELSE W1
                ELSE IF ext \in text_extensions
                THEN LET W1 == [freed EXCEPT !.orch.text_buffer = Append(@, job)]
                     IN  IF Len(W1.orch.text_buffer) >= BATCH_SIZE
                         THEN _flush_buffer_embed(W1, "text") ELSE W1
                ELSE [freed EXCEPT !.db = add_or_update_task(@, job.path, "EMBED", "FAILED", 0)]
          [] job.task_type = "DELETE" ->
                LET W1 == [freed EXCEPT !.orch.delete_buffer = Append(@, job)]
                IN  IF Len(W1.orch.delete_buffer) >= BATCH_SIZE
                    THEN _flush_buffer_delete(W1) ELSE W1
          [] OTHER ->
                [W EXCEPT !.orch.executor = Append(@, PoolTask("job", <<job>>, ""))]

\* one iteration of _dispatch_loop up to queue.get, after the slot was acquired
BeforeGet(W) ==
    LET W0 == [W EXCEPT !.orch.pool_semaphore = @ - 1]
        W1 == IF W0.orch.text_buffer # <<>> /\ now - W0.orch.last_text_flush >= FLUSH_TIMEOUT
              THEN _flush_buffer_embed(W0, "text") ELSE W0
        W2 == IF W1.orch.image_buffer # <<>> /\ now - W1.orch.last_image_flush >= FLUSH_TIMEOUT
              THEN _flush_buffer_embed(W1, "image") ELSE W1
        W3 == IF W2.orch.delete_buffer # <<>> /\ now - W2.orch.last_delete_flush >= FLUSH_TIMEOUT
              THEN _flush_buffer_delete(W2) ELSE W2
    IN  IF now - W3.orch.last_timeout_check >= CheckInterval
        THEN [_check_timeouts(W3) EXCEPT !.orch.last_timeout_check = now]
        ELSE W3

SetWorld(W) ==
    /\ db' = W.db
    /\ orch' = W.orch
    /\ released' = W.released

\* mutant of _dispatch_loop: queue.get hands out any queued job
_dispatch_loop_any_job ==
    /\ orch.pool_semaphore > 0
    /\ LET W == BeforeGet(World)
           queued == BagToSet(W.orch.queue)
       IN  IF queued = {}
           THEN SetWorld([W EXCEPT !.orch.pool_semaphore = Release(@)])
           ELSE \E job \in queued :
                    SetWorld(Route([W EXCEPT !.orch.queue = @ (-) SetToBag({job})], job))
    /\ dran' = TRUE
    /\ UNCHANGED <<last_call, timers, config, search, race, shot, loaded, worker, disk, known_mtimes,
                   pending_timers, hist, events>>

\* _dispatch_loop: one iteration.  pool_semaphore.acquire() blocks while no
\* slot is free; PriorityQueue.get hands out a job of least priority value.
_dispatch_loop ==
    /\ orch.pool_semaphore > 0
    /\ LET W == BeforeGet(World)
           queued == BagToSet(W.orch.queue)
       IN  IF queued = {}
           THEN SetWorld([W EXCEPT !.orch.pool_semaphore = Release(@)])
           ELSE \E job \in queued :
                    /\ job.priority = Min({j.priority : j \in queued})
                    /\ SetWorld(Route([W EXCEPT !.orch.queue = @ (-) SetToBag({job})], job))
    /\ dran' = TRUE
    /\ UNCHANGED <<last_call, timers, config, search, race, shot, loaded, worker, disk, known_mtimes,
                   pending_timers, hist, events>>

(***************************************************************************)
(* The worker pool: ThreadPoolExecutor(max_workers) and the functions the  *)
(* dispatcher submits to it.                                               *)
(***************************************************************************)
Running(task, pc, result) ==
    [pc |-> pc, kind |-> task.kind, jobs |-> task.jobs, batch_type |-> task.batch_type,
     flushed |-> task.flushed, result |-> result]

KeyOf(job) == <<job.path, job.task_type>>

\* the model whose loaded flag _execute_job and the service look at
ModelOf(task_type) ==
    CASE task_type = "OCR" -> "ocr"
      [] task_type = "LLM" -> "llm"
      [] OTHER -> "text"

FirstIdle == Min({i \in Threads : worker[i] = Idle})

PathsOf(jobs) == {jobs[n].path : n \in 1..Len(jobs)}

\* a free thread takes the oldest work item of the executor.
\*   _execute_job_wrapper: clock in, then _execute_job up to the loaded check;
\*   _execute_batch_embed: up to the loaded check of the target model;
\*   _execute_batch_delete: remove_tasks_bulk.
PoolStart(i) ==
    /\ orch.executor # <<>>
    /\ worker[i] = Idle
    /\ i = FirstIdle
    /\ LET task == Head(orch.executor)
           rest == [orch EXCEPT !.executor = Tail(@)]
       IN  CASE task.kind = "job" ->
                  LET job == task.jobs[1]
                  IN  /\ orch' = [rest EXCEPT !.active_jobs[KeyOf(job)] =
                                        [start_time |-> now, owner |-> i]]
                      /\ worker' = [worker EXCEPT ![i] =
                            IF loaded[ModelOf(job.task_type)]
                            THEN Running(task, "service", "none")
                            ELSE Running(task, "finish", "skip")]
                      /\ UNCHANGED <<db, hist>>
             [] task.kind = "embed" ->
                  /\ orch' = rest
                  /\ worker' = [worker EXCEPT ![i] =
                        IF loaded[task.batch_type]
                        THEN Running(task, "service", "none") ELSE Idle]
                  /\ UNCHANGED <<db, hist>>
             [] OTHER ->
                  /\ orch' = rest
                  /\ db' = remove_tasks_bulk(db, PathsOf(task.jobs))
                  /\ hist' = [p \in Paths |->
                        IF p \in PathsOf(task.jobs)
                        THEN [hist[p] EXCEPT !.executed = TRUE,
                                             !.stage = IF @ = "deleting" THEN "gone"
                                                       ELSE "none"]
                        ELSE hist[p]]
                  /\ UNCHANGED worker
    /\ released' = [released EXCEPT ![i] = 0]
    /\ UNCHANGED <<last_call, timers, config, search, race, shot, loaded, dran, disk, known_mtimes,
                   pending_timers, events>>

\* OCRService.run, LLMService.run and the call of embed_service.run_embed_llm
\* (EmbedService has no method of that name: the call raises AttributeError).
\* A backend call that never returns leaves the thread here.  result is
\* "unloaded" when the service finds its model unloaded and returns False.
JobService(i, outcome) ==
    /\ worker[i].pc = "service"
    /\ worker[i].kind = "job"
    /\ LET job == worker[i].jobs[1]
           result == IF job.task_type = "EMBED_LLM" THEN "error"
                     ELSE IF ~loaded[ModelOf(job.task_type)] THEN "unloaded"
                     ELSE outcome
       IN  /\ job.task_type = "OCR" => outcome \in {"ok", "error"}
           /\ job.task_type = "LLM" => outcome \in {"ok", "fail"}
           /\ job.task_type = "EMBED_LLM" => outcome = "error"
           /\ db' = IF result # "ok" THEN db
                    ELSE IF job.task_type = "OCR" THEN save_ocr_result(db, job.path)
                    ELSE save_llm_result(db, job.path)
           /\ worker' = [worker EXCEPT ![i].pc = "finish", ![i].result = result]
    /\ UNCHANGED <<last_call, timers, config, search, race, shot, loaded, orch, released, dran, disk,
                   known_mtimes, pending_timers, hist, events>>

\* the rest of _execute_job after the service has returned or raised
Settle(W, job, result) ==
    CASE result = "ok" ->
            LET W1 == [W EXCEPT !.db = mark_completed(@, job.path, job.task_type)]
            IN  IF job.task_type = "LLM" /\ disk[job.path] # 0
                THEN submit_task(W1, "EMBED_LLM", job.path, 1, disk[job.path])
                ELSE W1
      [] result \in {"fail", "error", "unloaded"} ->
            [W EXCEPT !.db = add_or_update_task(@, job.path, job.task_type, "FAILED", 0)]
      [] OTHER -> W

\* the finally block of _execute_job_wrapper on thread i
ClockOut(W, job, i) ==
    IF W.orch.active_jobs[KeyOf(job)] # NoEntry
    THEN [W EXCEPT !.orch.active_jobs[KeyOf(job)] = NoEntry,
                   !.orch.pool_semaphore = Release(@),
                   !.released[i] = @ + 1]
    ELSE W

JobFinish(i) ==
    /\ worker[i].pc = "finish"
    /\ worker[i].kind = "job"
    /\ LET job == worker[i].jobs[1]
           W == ClockOut(Settle(World, job, worker[i].result), job, i)
       IN  /\ db' = W.db
           /\ orch' = W.orch
           /\ released' = [W.released EXCEPT ![i] = 0]
    /\ worker' = [worker EXCEPT ![i] = Idle]
    /\ UNCHANGED <<last_call, timers, config, search, race, shot, loaded, dran, disk, known_mtimes, pending_timers,
                   hist, events>>

\* EmbedService.run_batch: the services call db.save_embeddings(path, rows),
\* which Database.save_embeddings(data) rejects with a TypeError that the
\* services catch row by row, so no path of a batch is ever reported as saved
run_batch(jobs, batch_type) == {}

RECURSIVE MarkBatch(_, _, _, _)
MarkBatch(S, jobs, success_set, n) ==
    IF n > Len(jobs) THEN S
    ELSE MarkBatch(IF jobs[n].path \in success_set
                   THEN mark_completed(S, jobs[n].path, "EMBED")
                   ELSE add_or_update_task(S, jobs[n].path, "EMBED", "FAILED", 0),
                   jobs, success_set, n + 1)

\* _execute_batch_embed from run_batch on; an embedder that never returns
\* leaves the thread in "service"
BatchFinish(i) ==
    /\ worker[i].pc = "service"
    /\ worker[i].kind = "embed"
    /\ db' = MarkBatch(db, worker[i].jobs,
                       run_batch(worker[i].jobs, worker[i].batch_type), 1)
    /\ worker' = [worker EXCEPT ![i] = Idle]
    /\ UNCHANGED <<last_call, timers, config, search, race, shot, loaded, orch, released, dran, disk,
                   known_mtimes, pending_timers, hist, events>>

\* a stamp one tick later; stamps older than the horizon are all alike
Back(stamp, horizon) == IF now - stamp >= horizon THEN stamp ELSE stamp - 1

\* the stamp of a batch one tick later (the stamps of the other pool tasks are not read)
Aged(task) == IF task.kind = "embed" THEN [task EXCEPT !.flushed = Back(@, Late)] ELSE task

\* 5 s pass.  The dispatcher loops at least every 0.5 s unless it is blocked
\* in pool_semaphore.acquire(); a free thread takes queued work at once; the
\* code after a service call and a debounce timer (1 s) take less than a tick.
Tick ==
    /\ \/ orch.pool_semaphore = 0
       \/ dran /\ orch.queue = EmptyBag
    /\ orch.executor = <<>> \/ \A i \in Threads : worker[i] # Idle
    /\ \A i \in Threads : worker[i] = Idle \/ worker[i].pc # "finish"
    /\ pending_timers = {}
    /\ orch' = [orch EXCEPT
            !.last_text_flush = Back(@, FLUSH_TIMEOUT),
            !.last_image_flush = Back(@, FLUSH_TIMEOUT),
            !.last_delete_flush = Back(@, FLUSH_TIMEOUT),
            !.last_timeout_check = Back(@, CheckInterval),
            !.active_jobs = [k \in Keys |->
                IF @[k] = NoEntry THEN NoEntry
                ELSE [@[k] EXCEPT !.start_time = Back(@, Late)]],
            !.executor = [n \in 1..Len(@) |-> Aged(@[n])]]
    /\ worker' = [i \in Threads |->
            IF worker[i] = Idle THEN Idle
            ELSE Aged(worker[i])]
    /\ dran' = FALSE
    /\ UNCHANGED <<db, last_call, timers, config, search, race, shot, loaded, released, disk, known_mtimes, pending_timers,
                   hist, events>>

(***************************************************************************)
(* The watcher (watcher.py): file-system events, the debounce timers and   *)
(* the submissions they make.                                              *)
(***************************************************************************)
is_valid_file(path) ==
    path # Dir /\ (suffix(path) \in text_extensions \/ suffix(path) \in image_extensions)

_queue_all_tasks(W, path, mtime) ==
    LET ext == suffix(path)
        W1 == IF ext \in text_extensions \/ ext \in image_extensions
              THEN submit_task(W, "EMBED", path, 2, mtime) ELSE W
        W2 == IF ext \in text_extensions \/ ext \in image_extensions
              THEN submit_task(W1, "LLM", path, 2, mtime) ELSE W1
    IN  IF ext \in image_extensions THEN submit_task(W2, "OCR", path, 2, mtime) ELSE W2

\* get_all_file_states: {row[0]: row[1] for row in "SELECT path, file_mtime FROM
\* tasks"}.  The rows come in rowid order and a later row of a path replaces
\* the value of an earlier one, so a path maps to the file_mtime of its last row
get_all_file_states(S) ==
    [p \in {r.path : r \in S.tasks} |->
        LET rows == {r \in S.tasks : r.path = p}
            last == CHOOSE r \in rows : \A x \in rows : x.rowid <= r.rowid
        IN  last.file_mtime]

_recursive_delete(W, path) ==
    IF path \in DOMAIN get_all_file_states(W.db)
    THEN submit_task(W, "DELETE", path, 1, 0)
    ELSE W

\* an os.walk loop over files whose os.path.getmtime is given by mtimes
RECURSIVE WalkOn(_, _, _)
WalkOn(W, files, mtimes) ==
    IF files = {} THEN W
    ELSE LET f == CHOOSE x \in files : TRUE
         IN  WalkOn(IF is_valid_file(f) THEN _queue_all_tasks(W, f, mtimes[f]) ELSE W,
                    files \ {f}, mtimes)

\* the os.walk loop of _submit_to_orchestrator over the files of a folder
Walk(W, files) == WalkOn(W, files, disk)

OnDisk == {p \in Paths : disk[p] # 0}

Elems(seq) == {seq[n] : n \in 1..Len(seq)}

\* every job for p that is queued, buffered, handed to the pool or running
JobsFor(p) ==
    {j \in BagToSet(orch.queue) \cup Elems(orch.text_buffer) \cup Elems(orch.image_buffer)
            \cup Elems(orch.delete_buffer)
            \cup UNION {Elems(t.jobs) : t \in Elems(orch.executor)}
            \cup UNION {Elems(worker[i].jobs) : i \in {th \in Threads : worker[th] # Idle}}
        : j.path = p}

\* p has been ingested and nothing about it is in progress
Ingested(p) ==
    /\ p \in DOMAIN get_all_file_states(db)
    /\ \A r \in db.tasks : r.path = p => r.status # "PENDING"
    /\ JobsFor(p) = {}

\* the files the folder holds or has held
Seen == OnDisk \cup {p \in Paths : known_mtimes[p] # 0} \cup DOMAIN get_all_file_states(db)

\* a file is created or rewritten (on_created / on_modified; a move into the
\* folder keeps the file's mtime); creating it also changes the folder
FsWrite(p, m, dir_event) ==
    /\ events < MaxEvents
    /\ Cardinality(Seen \cup {p}) <= MaxFiles
    /\ dir_event => disk[p] = 0
    /\ disk' = [disk EXCEPT ![p] = m]
    /\ pending_timers' = pending_timers \cup {p} \cup (IF dir_event THEN {Dir} ELSE {})
    /\ events' = events + 1
    /\ UNCHANGED <<db, last_call, timers, config, search, race, shot, loaded, orch, worker, released, dran,
                   known_mtimes, hist>>

\* a file is removed or moved away: on_deleted / on_moved call _recursive_delete
FsDelete(p) ==
    /\ events < MaxEvents
    /\ disk[p] # 0
    /\ disk' = [disk EXCEPT ![p] = 0]
    /\ SetWorld(_recursive_delete(World, p))
    /\ hist' = [hist EXCEPT ![p].stage = IF Ingested(p) THEN "deleting" ELSE "none"]
    /\ events' = events + 1
    /\ UNCHANGED <<last_call, timers, config, search, race, shot, loaded, worker, dran, known_mtimes,
                   pending_timers>>

\* _submit_to_orchestrator(x, task_type) after the entry of x has been deleted
_submit_to_orchestrator(x) ==
    /\ IF x = Dir
       THEN /\ SetWorld(Walk(World, OnDisk))
            /\ hist' = [p \in Paths |->
                    IF p \in OnDisk THEN [hist[p] EXCEPT !.executed = FALSE]
                    ELSE hist[p]]
            /\ UNCHANGED known_mtimes
       ELSE IF disk[x] = 0 \/ ~is_valid_file(x)
       THEN UNCHANGED <<db, orch, released, known_mtimes, hist>>
       ELSE IF known_mtimes[x] # 0 /\ known_mtimes[x] = disk[x]
       THEN /\ hist' = [hist EXCEPT ![x].stage =
                                IF @ = "gone" THEN "reported" ELSE @]
            /\ UNCHANGED <<db, orch, released, known_mtimes>>
       ELSE /\ known_mtimes' = [known_mtimes EXCEPT ![x] = disk[x]]
            /\ SetWorld(_queue_all_tasks(World, x, disk[x]))
            /\ hist' = [hist EXCEPT ![x].executed = FALSE,
                                          ![x].stage = IF @ = "gone" THEN "reported" ELSE @]
    /\ UNCHANGED <<last_call, loaded, worker, dran, disk, events>>

\* the debounce timer of x fires and runs _submit_to_orchestrator
TimerFire(x) ==
    /\ x \in pending_timers
    /\ pending_timers' = pending_timers \ {x}
    /\ _submit_to_orchestrator(x)
    /\ UNCHANGED <<timers, config, search, race, shot>>

(***************************************************************************)
(* The debounce of DebouncedEventHandler, thread by thread.  The observer  *)
(* thread calls on_modified and then _debounce_task; every Timer is a      *)
(* thread that sleeps for debounce_interval, tests its finished flag and,  *)
(* when the flag is not set, calls _submit_to_orchestrator.  The bodies of *)
(* _debounce_task and _submit_to_orchestrator run under the handler's lock.*)
(***************************************************************************)
\* the timers created so far for path p
TimersOf(p) == {k \in TimerIds : timers[k].pc # "none" /\ timers[k].path = p}

\* the Timer pending_timers[p] refers to: the last one started for p
Entry(p) == Min({k \in TimersOf(p) : \A j \in TimersOf(p) : timers[j].pc = "event" \/ j <= k})

\* the file p is written and the observer thread calls on_modified; an event
\* after the first arrives while the Timer of the event before is sleeping,
\* that is, less than debounce_interval after that event was handled
on_modified(p, m) ==
    /\ events < MaxEvents
    /\ \A k \in TimerIds : timers[k].pc # "event"
    /\ TimersOf(p) # {} => p \in pending_timers /\ timers[Entry(p)].pc = "sleeping"
    /\ disk' = [disk EXCEPT ![p] = m]
    /\ timers' = [timers EXCEPT ![events + 1] = [path |-> p, pc |-> "event"]]
    /\ events' = events + 1
    /\ UNCHANGED <<db, last_call, config, search, race, shot, loaded, orch, worker, released, dran,
                   known_mtimes, pending_timers, hist>>

\* Timer.cancel sets the finished flag: a sleeping Timer never calls its
\* function, a Timer that has tested the flag already is not stopped
cancel(T, k) ==
    IF T[k].pc = "sleeping" THEN [T EXCEPT ![k].pc = "cancelled"] ELSE T

\* _debounce_task(path, task_type) for the event that created Timer k
_debounce_task(k) ==
    /\ timers[k].pc = "event"
    /\ LET p == timers[k].path
           T == IF p \in pending_timers THEN cancel(timers, Entry(p)) ELSE timers
       IN  /\ timers' = [T EXCEPT ![k].pc = "sleeping"]
           /\ pending_timers' = pending_timers \cup {p}
    /\ UNCHANGED <<db, last_call, config, search, race, shot, loaded, orch, worker, released, dran,
                   disk, known_mtimes, hist, events>>

\* Timer.run: the sleep of debounce_interval is over and finished is not set
TimerExpire(k) ==
    /\ timers[k].pc = "sleeping"
    /\ timers' = [timers EXCEPT ![k].pc = "function"]
    /\ UNCHANGED <<db, last_call, config, search, race, shot, loaded, orch, worker, released, dran,
                   disk, known_mtimes, pending_timers, hist, events>>

\* Timer k takes the lock and runs _submit_to_orchestrator(path, task_type)
TimerRun(k) ==
    /\ timers[k].pc = "function"
    /\ pending_timers' = pending_timers \ {timers[k].path}
    /\ timers' = [timers EXCEPT ![k].pc = "finished"]
    /\ _submit_to_orchestrator(timers[k].path)
    /\ UNCHANGED <<config, search, race, shot>>

NextDebounce ==
    \/ \E p \in Paths, m \in 1..MaxMtime : on_modified(p, m)
    \/ \E k \in TimerIds : _debounce_task(k)
    \/ \E k \in TimerIds : TimerExpire(k)
    \/ \E k \in TimerIds : TimerRun(k)

(***************************************************************************)
(* The user's actions in the GUI (gui.py, guiWorkers.py).                  *)
(***************************************************************************)
GuiKeys == {"ocr", "embed", "llm"}

ModelsOf(key) == IF key = "embed" THEN {"text", "image"} ELSE {key}

key_map(key) ==
    CASE key = "ocr" -> <<"OCR">>
      [] key = "embed" -> <<"EMBED", "EMBED_LLM">>
      [] OTHER -> <<"LLM">>

RECURSIVE wake_up_worker(_, _, _)
wake_up_worker(W, task_types, n) ==
    IF n > Len(task_types) THEN W
    ELSE wake_up_worker(resume_pending(W, task_types[n]), task_types, n + 1)

\* toggle_model, ModelToggleWorker.run and on_model_toggle_done
toggle_model(key) ==
    /\ events < MaxActions
    /\ LET current == loaded[IF key = "embed" THEN "text" ELSE key]
       IN  /\ loaded' = [k \in ModelKeys |->
                            IF k \in ModelsOf(key) THEN ~current ELSE loaded[k]]
           /\ IF current THEN UNCHANGED <<db, orch, released>>
              ELSE SetWorld(wake_up_worker(World, key_map(key), 1))
    /\ events' = events + 1
    /\ UNCHANGED <<last_call, timers, config, search, race, shot, worker, dran, disk, known_mtimes,
                   pending_timers, hist>>

\* for path, task_type in pending: submit_task(task_type, path, priority=1, mtime=0)
RECURSIVE Resubmit(_, _)
Resubmit(W, pending) ==
    IF pending = {} THEN W
    ELSE LET x == CHOOSE y \in pending : TRUE
         IN  Resubmit(submit_task(W, x[2], x[1], 1, 0), pending \ {x})

\* DatabaseActionWorker.run, action_type 'retry_failed'
retry_failed ==
    /\ events < MaxActions
    /\ LET W == [World EXCEPT !.db = retry_all_failed(@)]
       IN  SetWorld(Resubmit(W, get_pending_tasks(W.db)))
    /\ events' = events + 1
    /\ UNCHANGED <<last_call, timers, config, search, race, shot, loaded, worker, dran, disk, known_mtimes,
                   pending_timers, hist>>

\* DatabaseActionWorker.run, action_type 'reset_service', one service key
reset_service(service_key) ==
    /\ events < MaxActions
    /\ LET W == [World EXCEPT !.db = reset_service_data(@, service_key)]
       IN  SetWorld(Resubmit(W, {x \in get_pending_tasks(W.db) : x[2] = service_key}))
    /\ events' = events + 1
    /\ UNCHANGED <<last_call, timers, config, search, race, shot, loaded, worker, dran, disk, known_mtimes,
                   pending_timers, hist>>

ServiceKeys == {"OCR", "EMBED", "LLM"}

(***************************************************************************)
(* Specifications.                                                         *)
(***************************************************************************)
\* the steps of the dispatcher thread, of the pool threads, and of the clock
NextOrchestrator ==
    \/ _dispatch_loop
    \/ \E i \in Threads : PoolStart(i)
    \/ \E i \in Threads, outcome \in {"ok", "fail", "error"} : JobService(i, outcome)
    \/ \E i \in Threads : JobFinish(i)
    \/ \E i \in Threads : BatchFinish(i)
    \/ Tick

\* a client calls Orchestrator.submit_task(task_type, path, mtime=mtime)
SubmitTask(task_type, path, mtime) ==
    /\ events < MaxEvents
    /\ SetWorld(submit_task(World, task_type, path, 2, mtime))
    /\ hist' = [hist EXCEPT ![path].twice =
                    \/ @
                    \/ /\ Job(2, task_type, path) \in BagToSet(orch.queue)
                       /\ \A r \in RowsOf(db.tasks, path, task_type) : r.file_mtime = mtime]
    /\ events' = events + 1
    /\ UNCHANGED <<last_call, timers, config, search, race, shot, loaded, worker, dran, disk, known_mtimes,
                   pending_timers>>

\* the Orchestrator driven through submit_task, started on an empty store
SpecOrchestrator ==
    /\ InitStore
    /\ [][NextOrchestrator
          \/ \E task_type \in JobTypes \cup {"EMBED"}, path \in Paths, mtime \in 1..MaxMtime :
                SubmitTask(task_type, path, mtime)]_vars

\* the Orchestrator driven through submit_task with every backend loaded, running
\* for ever: the dispatcher thread loops, time passes, a free pool thread takes
\* queued work, every backend call returns with one of its outcomes and the
\* code after it completes
SpecIdle ==
    /\ InitStore
    /\ [][NextOrchestrator
          \/ \E task_type \in JobTypes \cup {"EMBED"}, path \in Paths, mtime \in 1..MaxMtime :
                SubmitTask(task_type, path, mtime)]_vars
    /\ WF_vars(_dispatch_loop)
    /\ WF_vars(Tick)
    /\ \A i \in Threads :
            /\ WF_vars(PoolStart(i)) /\ WF_vars(JobFinish(i)) /\ WF_vars(BatchFinish(i))
            /\ WF_vars(\E outcome \in {"ok", "fail", "error"} : JobService(i, outcome))

\* the batching of the dispatcher: the watcher submits EMBED and DELETE jobs,
\* the pool runs the batches
SpecBatch ==
    /\ InitStore
    /\ [][\/ _dispatch_loop
          \/ \E i \in Threads : PoolStart(i)
          \/ \E i \in Threads : BatchFinish(i)
          \/ Tick
          \/ \E task_type \in {"EMBED", "DELETE"}, path \in Paths, mtime \in 1..MaxMtime :
                SubmitTask(task_type, path, mtime)]_vars

Abs(x) == IF x < 0 THEN 0 - x ELSE x

\* the valid files the scan finds new (no row in db_state) or modified
\* (abs(mtime - db_state[path]) > 1.0), mtimes giving every file's mtime on disk.
\* The mtimes of the model are seconds apart; a stored 0 is the 0.0 a row gets
\* when it is inserted without an mtime, more than 1 s from any file's mtime
Changed(S, mtimes) ==
    LET db_state == get_all_file_states(S)
    IN  {f \in Paths : /\ mtimes[f] # 0 /\ is_valid_file(f)
                       /\ \/ f \notin DOMAIN db_state
                          \/ db_state[f] = 0
                          \/ Abs(mtimes[f] - db_state[f]) > 1}

\* "Cleanup Ghosts": submit_task("DELETE", db_path, priority=0) for every one
RECURSIVE DeleteGhosts(_, _)
DeleteGhosts(W, ghosts) ==
    IF ghosts = {} THEN W
    ELSE LET g == CHOOSE x \in ghosts : TRUE
         IN  DeleteGhosts(submit_task(W, "DELETE", g, 0, 0), ghosts \ {g})

\* the application runs on an empty store with any of the four models loaded:
\* 'ocr' and 'llm' are toggled on their own, and 'text' and 'image' differ
\* after a toggle of 'embed' in which one of the two load() calls failed
InitGate ==
    /\ db = EmptyStore
    /\ last_call = NoCall
    /\ loaded \in [ModelKeys -> BOOLEAN]
    /\ orch = InitOrchestrator
    /\ worker = [i \in Threads |-> Idle]
    /\ released = [i \in Threads |-> 0]
    /\ dran = FALSE
    /\ disk = [p \in Paths |-> 0]
    /\ known_mtimes = [p \in Paths |-> 0]
    /\ pending_timers = {}
    /\ timers = [k \in TimerIds |-> NoTimer]
    /\ config = NoConfig
    /\ search = NoSearch
    /\ race = NoRace
    /\ shot = NoShot
    /\ hist = [p \in Paths |-> NoHistory]
    /\ events = 0

\* submit_task called with every task type, whatever models are loaded
SpecGate ==
    /\ InitGate
    /\ [][\E task_type \in TaskTypes, path \in Paths, mtime \in 1..MaxMtime :
                SubmitTask(task_type, path, mtime)]_vars

\* _run_initial_scan: db_state is read once, the new and the modified files
\* get the shotgun set, then every path of db_state that is no valid file on
\* disk gets a DELETE
_run_initial_scan(W, mtimes) ==
    LET db_state == get_all_file_states(W.db)
        disk_files == {f \in Paths : mtimes[f] # 0 /\ is_valid_file(f)}
    IN  DeleteGhosts(WalkOn(W, Changed(W.db, mtimes), mtimes),
                     DOMAIN db_state \ disk_files)

\* the application started on an empty store with file f in the folder:
\* FileWatcherService.start has run the initial scan and started the observer
InitScanned(f) ==
    /\ last_call = NoCall
    /\ loaded = [k \in ModelKeys |-> TRUE]
    /\ disk = [p \in Paths |-> IF p = f THEN 1 ELSE 0]
    /\ known_mtimes = disk
    /\ released = [i \in Threads |-> 0]
    /\ LET W == _run_initial_scan([db |-> EmptyStore, orch |-> InitOrchestrator,
                                   released |-> released], disk)
       IN  db = W.db /\ orch = W.orch
    /\ worker = [i \in Threads |-> Idle]
    /\ dran = FALSE
    /\ pending_timers = {}
    /\ timers = [k \in TimerIds |-> NoTimer]
    /\ config = NoConfig
    /\ search = NoSearch
    /\ race = NoRace
    /\ shot = NoShot
    /\ hist = [p \in Paths |-> NoHistory]
    /\ events = 0

NextWatcher ==
    \/ \E p \in Paths, m \in 1..MaxMtime, dir_event \in BOOLEAN : FsWrite(p, m, dir_event)
    \/ \E p \in Paths : FsDelete(p)
    \/ \E x \in Paths \cup {Dir} : TimerFire(x)

\* the watcher and the orchestrator, a text file in the folder
SpecWatcher == InitScanned("d/b.txt") /\ [][NextOrchestrator \/ NextWatcher]_vars

\* the application is closed and started again; while it was closed the
\* folder has become mtimes.  Database.__init__ runs validate_integrity,
\* Orchestrator.start submits the PENDING rows with priority 1, and
\* FileWatcherService.start runs the initial scan with an empty _known_mtimes
Restart(mtimes) ==
    /\ events < MaxEvents
    /\ Cardinality(Seen \cup {p \in Paths : mtimes[p] # 0}) <= MaxFiles
    /\ disk' = mtimes
    /\ LET S == validate_integrity(db)
           W0 == [db |-> S, orch |-> InitOrchestrator,
                  released |-> [i \in Threads |-> 0]]
           W1 == Resubmit(W0, get_pending_tasks(S))
       IN  /\ SetWorld(_run_initial_scan(W1, mtimes))
           /\ hist' = [p \in Paths |->
                    [NoHistory EXCEPT !.stage =
                        IF p \in Changed(S, mtimes) /\ p \in DOMAIN get_all_file_states(S)
                        THEN "modified" ELSE "none"]]
    /\ worker' = [i \in Threads |-> Idle]
    /\ dran' = FALSE
    /\ known_mtimes' = [p \in Paths |-> IF is_valid_file(p) THEN mtimes[p] ELSE 0]
    /\ pending_timers' = {}
    /\ events' = events + 1
    /\ UNCHANGED <<last_call, timers, config, search, race, shot, loaded>>

NextScan ==
    \/ \E p \in Paths : FsDelete(p)
    \/ \E mtimes \in [Paths -> Mtimes] : Restart(mtimes)

\* the watcher and the orchestrator across restarts, a text file in the folder
SpecScan == InitScanned("d/b.txt") /\ [][NextOrchestrator \/ NextScan]_vars

(***************************************************************************)
(* SpecRace: one submit_task call on the watcher's thread while a          *)
(* ModelToggleWorker loads a backend and the wake-up thread of             *)
(* on_model_toggle_done resumes its task types.  race.submit counts the    *)
(* statements of submit_task that have run, race.n the models loaded or    *)
(* the task types resumed.                                                 *)
(***************************************************************************)
\* mutant of submit_task_order: the availability check is made before the upsert
submit_task_order_check_first == <<"check", "upsert">>

\* submit_task: add_or_update_task, then is_model_available, then queue.put
submit_task_order == <<"upsert", "check">>

\* ModelToggleWorker.run: the models of a key, in the order they are loaded
Targets(key) == IF key = "embed" THEN <<"text", "image">> ELSE <<key>>

\* the application runs with every model unloaded
InitRace ==
    /\ db = EmptyStore
    /\ last_call = NoCall
    /\ loaded = [k \in ModelKeys |-> FALSE]
    /\ orch = InitOrchestrator
    /\ worker = [i \in Threads |-> Idle]
    /\ released = [i \in Threads |-> 0]
    /\ dran = FALSE
    /\ disk = [p \in Paths |-> 1]
    /\ known_mtimes = disk
    /\ pending_timers = {}
    /\ timers = [k \in TimerIds |-> NoTimer]
    /\ config = NoConfig
    /\ search = NoSearch
    /\ race = NoRace
    /\ shot = NoShot
    /\ hist = [p \in Paths |-> NoHistory]
    /\ events = 0

\* the next statement of submit_task(task_type, path, mtime=mtime)
SubmitStep(task_type, path, mtime) ==
    /\ race.submit < Len(submit_task_order)
    /\ race.submit # 0 =>
            task_type = race.task_type /\ path = race.path /\ mtime = race.mtime
    /\ LET called == [race EXCEPT !.submit = @ + 1, !.task_type = task_type,
                                  !.path = path, !.mtime = mtime]
       IN  IF submit_task_order[race.submit + 1] = "upsert"
           THEN /\ db' = add_or_update_task(db, path, task_type, "PENDING", mtime)
                /\ race' = called
           ELSE /\ race' = [called EXCEPT !.available = is_model_available(task_type)]
                /\ UNCHANGED db
    /\ UNCHANGED <<last_call, timers, config, search, shot, loaded, orch, worker, released,
                   dran, disk, known_mtimes, pending_timers, hist, events>>

\* if self.is_model_available(task_type): self.queue.put(Job(priority, task_type, path))
SubmitPut ==
    /\ race.submit = Len(submit_task_order)
    /\ orch' = IF race.available
               THEN [orch EXCEPT !.queue = @ (+) SetToBag({Job(2, race.task_type, race.path)})]
               ELSE orch
    /\ race' = [race EXCEPT !.submit = @ + 1]
    /\ UNCHANGED <<db, last_call, timers, config, search, shot, loaded, worker, released,
                   dran, disk, known_mtimes, pending_timers, hist, events>>

\* toggle_model(key) finds the model unloaded and starts ModelToggleWorker(key, "load")
ToggleStart(key) ==
    /\ race.toggle = "idle"
    /\ ~loaded[IF key = "embed" THEN "text" ELSE key]
    /\ race' = [race EXCEPT !.toggle = "run", !.key = key, !.n = 1]
    /\ UNCHANGED <<db, last_call, timers, config, search, shot, loaded, orch, worker,
                   released, dran, disk, known_mtimes, pending_timers, hist, events>>

\* ModelToggleWorker.run: model.load() of the next target succeeds; after the
\* last one finished is emitted and on_model_toggle_done starts wake_up_worker
ToggleLoad ==
    /\ race.toggle = "run"
    /\ loaded' = [loaded EXCEPT ![Targets(race.key)[race.n]] = TRUE]
    /\ race' = IF race.n < Len(Targets(race.key)) THEN [race EXCEPT !.n = @ + 1]
               ELSE [race EXCEPT !.toggle = "wake", !.n = 1]
    /\ UNCHANGED <<db, last_call, timers, config, search, shot, orch, worker, released,
                   dran, disk, known_mtimes, pending_timers, hist, events>>

\* wake_up_worker: self.orchestrator.resume_pending(t_type) for the next task type
WakeUp ==
    /\ race.toggle = "wake"
    /\ SetWorld(resume_pending(World, key_map(race.key)[race.n]))
    /\ race' = IF race.n < Len(key_map(race.key)) THEN [race EXCEPT !.n = @ + 1]
               ELSE [race EXCEPT !.toggle = "done"]
    /\ UNCHANGED <<last_call, timers, config, search, shot, loaded, worker, dran, disk,
                   known_mtimes, pending_timers, hist, events>>

SpecRace ==
    InitRace /\ [][\/ \E task_type \in TaskTypes \ {"DELETE"}, path \in Paths :
                        SubmitStep(task_type, path, disk[path])
                   \/ SubmitPut
                   \/ \E key \in GuiKeys : ToggleStart(key)
                   \/ ToggleLoad
                   \/ WakeUp]_vars

(***************************************************************************)
(* Screenshotter (services/screenshotterClass.py).  load and unload are    *)
(* called one after the other; every thread load starts runs _loop.        *)
(***************************************************************************)
LoopIds == 1..MaxLoops

but_shot == <<db, last_call, loaded, orch, worker, released, dran, disk, known_mtimes,
              pending_timers, timers, config, search, race, hist, events>>

\* Screenshotter.load when loaded is False
ShotLoad ==
    /\ shot.call = "none"
    /\ ~shot.loaded
    /\ \E n \in LoopIds :
            /\ shot.loops[n].pc = "none"
            /\ \A i \in 1..(n - 1) : shot.loops[i].pc # "none"
            /\ shot' = [shot EXCEPT !.loaded = TRUE, !._stop_event = FALSE, !.thread = n,
                                     !.loops[n].pc = "test"]
    /\ UNCHANGED but_shot

\* Screenshotter.unload when loaded is True, up to thread.join(timeout=2.0)
ShotUnload ==
    /\ shot.call = "none"
    /\ shot.loaded
    /\ shot' = [shot EXCEPT !.loaded = FALSE, !._stop_event = TRUE,
                             !.call = IF shot.thread # 0 THEN "join" ELSE "none",
                             !.loops = [i \in LoopIds |->
                                            IF i = shot.thread THEN [@[i] EXCEPT !.stopped = TRUE]
                                            ELSE @[i]]]
    /\ UNCHANGED but_shot

\* join returns because the thread has ended; self.thread = None
JoinReturn ==
    /\ shot.call = "join"
    /\ shot.loops[shot.thread].pc = "dead"
    /\ shot' = [shot EXCEPT !.thread = 0, !.call = "none"]
    /\ UNCHANGED but_shot

\* join returns after 2 s while the thread is still inside take_screenshot,
\* cleanup_old_screenshots or the 5 s back-off; self.thread = None
JoinTimeout ==
    /\ shot.call = "join"
    /\ shot.loops[shot.thread].pc = "body"
    /\ shot' = [shot EXCEPT !.thread = 0, !.call = "none"]
    /\ UNCHANGED but_shot

\* while self.loaded and not self._stop_event.is_set()
LoopTest(i) ==
    /\ shot.loops[i].pc = "test"
    /\ shot' = [shot EXCEPT !.loops[i].pc =
                    IF shot.loaded /\ ~shot._stop_event THEN "body" ELSE "dead"]
    /\ UNCHANGED but_shot

\* take_screenshot and cleanup_old_screenshots return (ok), or one of them
\* raises and the thread sleeps 5 s before the next test
LoopBody(i, ok) ==
    /\ shot.loops[i].pc = "body"
    /\ shot' = [shot EXCEPT !.loops[i].pc = IF ok THEN "wait" ELSE "test"]
    /\ UNCHANGED but_shot

\* the wait of screenshot_interval seconds ends, or the stop event is seen set
LoopWait(i) ==
    /\ shot.loops[i].pc = "wait"
    /\ shot' = [shot EXCEPT !.loops[i].pc = "test"]
    /\ UNCHANGED but_shot

SpecShot ==
    InitStore /\ [][\/ ShotLoad
                    \/ ShotUnload
                    \/ JoinReturn
                    \/ JoinTimeout
                    \/ \E i \in LoopIds : LoopTest(i)
                    \/ \E i \in LoopIds, ok \in BOOLEAN : LoopBody(i, ok)
                    \/ \E i \in LoopIds : LoopWait(i)]_vars

(***************************************************************************)
(* SpecReconcile: the initial scan on the stores an earlier session can    *)
(* leave behind.  For every file the earlier session has done this: the    *)
(* shotgun set was enqueued against mtime (0: never), its tasks completed   *)
(* or not, the LLM job submitted EMBED_LLM with the mtime the file had     *)
(* then (fanout, 0: not), and a delete event submitted DELETE or not.      *)
(***************************************************************************)
\* greatest file modification time in SpecReconcile
MaxScanMtime == 3

Sessions ==
    {h \in [mtime : 0..MaxScanMtime, done : BOOLEAN, fanout : 0..MaxScanMtime,
            deleted : BOOLEAN] :
        /\ h.mtime = 0 => ~h.done /\ h.fanout = 0 /\ ~h.deleted
        /\ h.fanout # 0 => h.done /\ h.fanout >= h.mtime}

\* the store after the earlier session has handled path as h says
Session(W, path, h) ==
    LET W1 == IF h.mtime # 0 THEN _queue_all_tasks(W, path, h.mtime) ELSE W
        W2 == IF h.done
              THEN [W1 EXCEPT !.db =
                        LET jobs == <<Job(2, "EMBED", path)>>
                            S1 == mark_completed(
                                    save_llm_result(MarkBatch(@, jobs, run_batch(jobs, "text"), 1),
                                                    path),
                                    path, "LLM")
                        IN  IF suffix(path) \in image_extensions
                            THEN mark_completed(save_ocr_result(S1, path), path, "OCR") ELSE S1]
              ELSE W1
        W3 == IF h.fanout # 0 THEN submit_task(W2, "EMBED_LLM", path, 1, h.fanout) ELSE W2
    IN  IF h.deleted THEN _recursive_delete(W3, path) ELSE W3

InitReconcile ==
    /\ last_call = NoCall
    /\ loaded = [k \in ModelKeys |-> TRUE]
    /\ orch = InitOrchestrator
    /\ worker = [i \in Threads |-> Idle]
    /\ released = [i \in Threads |-> 0]
    /\ \E ha \in Sessions, hb \in Sessions :
            db = Session(Session([db |-> EmptyStore, orch |-> InitOrchestrator,
                                  released |-> released], "d/a.png", ha), "d/b.txt", hb).db
    /\ dran = FALSE
    /\ disk \in [Paths -> 0..MaxScanMtime]
    /\ known_mtimes = [p \in Paths |-> 0]
    /\ pending_timers = {}
    /\ timers = [k \in TimerIds |-> NoTimer]
    /\ config = NoConfig
    /\ search = NoSearch
    /\ race = NoRace
    /\ shot = NoShot
    /\ hist = [p \in Paths |-> NoHistory]
    /\ events = 0

\* FileWatcherService.start: the initial scan
InitialScan ==
    /\ events = 0
    /\ SetWorld(_run_initial_scan(World, disk))
    /\ known_mtimes' = [p \in Paths |-> IF is_valid_file(p) THEN disk[p] ELSE 0]
    /\ events' = 1
    /\ UNCHANGED <<last_call, timers, config, search, race, shot, loaded, worker, dran, disk,
                   pending_timers, hist>>

SpecReconcile == InitReconcile /\ [][InitialScan]_vars

\* the watcher's debounce on an empty folder, file events only
SpecDebounce == InitStore /\ [][NextDebounce]_vars

\* the EMBED_LLM branch of _execute_job on thread i: the call of
\* run_embed_llm raises at once
EmbedLlmRaises(i) ==
    /\ worker[i] # Idle
    /\ worker[i].kind = "job"
    /\ worker[i].jobs[1].task_type = "EMBED_LLM"
    /\ JobService(i, "error")

\* the orchestrator after the initial scan of a folder that holds one image,
\* running for ever: the dispatcher thread loops, time passes, a free pool
\* thread takes queued work and the code after a service call completes.  No
\* fairness for the OCR and LLM calls of JobService: a backend call may take
\* any time or never return.
SpecFlush ==
    /\ InitScanned("d/a.png")
    /\ [][NextOrchestrator]_vars
    /\ WF_vars(_dispatch_loop)
    /\ WF_vars(Tick)
    /\ \A i \in Threads :
            /\ WF_vars(PoolStart(i)) /\ WF_vars(JobFinish(i)) /\ WF_vars(BatchFinish(i))
            /\ WF_vars(EmbedLlmRaises(i))

(***************************************************************************)
(* SearchEngine (search.py).  The embeddings table is the sequence of its  *)
(* rows in rowid order; a row carries the columns search reads: the model  *)
(* that wrote it and sim, the dot product of its normalised vector with the *)
(* normalised query vector.  A score of 1.0 is Unit.                       *)
(***************************************************************************)
Unit == 1000 * 61 * 62

\* the keys of the rows, in the order the rows were inserted
SearchKeys == <<[path |-> "d/b.txt", chunk_index |-> 0],
                [path |-> "d/b.txt", chunk_index |-> -1],
                [path |-> "d/c.txt", chunk_index |-> 0],
                [path |-> "d/a.png", chunk_index |-> 0]>>

\* text_model_name, an embedding model used before it with vectors of the
\* same length, and image_model_name, whose vectors are longer
ModelNames == {"bge-small", "MiniLM", "clip"}
Dim(model_name) == IF model_name = "clip" THEN 512 ELSE 384

\* self.models.get(search_type).model_name
QueryModel(search_type) == IF search_type = "image" THEN "clip" ELSE "bge-small"

NoRow == [model_name |-> "", sim |-> 0]

\* the table that has the row written at key n when written[n] # NoRow
RECURSIVE Table(_, _)
Table(written, n) ==
    IF n > Len(SearchKeys) THEN <<>>
    ELSE (IF written[n] = NoRow THEN <<>>
          ELSE <<[path |-> SearchKeys[n].path, chunk_index |-> SearchKeys[n].chunk_index,
                  model_name |-> written[n].model_name, sim |-> written[n].sim]>>)
         \o Table(written, n + 1)

Tables ==
    {Table(written, 1) :
        written \in [1..Len(SearchKeys) -> {NoRow} \cup [model_name : ModelNames, sim : 1..MaxSim]]}

\* what a stream hands back: its list, or the exception that left it
Returned(results) == [raised |-> FALSE, results |-> results, scored |-> <<>>]
Raised(scored) == [raised |-> TRUE, results |-> <<>>, scored |-> scored]

\* get_lexical: db.search_lexical(query, search_type, limit=top_k * 2) binds
\* search_type to limit and raises TypeError (search_lexical(self, query,
\* limit=20)); the except clause logs it and returns []
get_lexical == Returned(<<>>)

\* the entry of best_per_file for a row
SemanticResult(row) ==
    [path |-> row.path, score |-> row.sim, match_type |-> "Semantic",
     model_name |-> row.model_name]

\* best_per_file after the rows up to n: a later row replaces the entry of
\* its path when its score is greater; a dict keeps the order of first insertion
RECURSIVE BestPerFile(_, _)
BestPerFile(rows, n) ==
    IF n = 0 THEN <<>>
    ELSE LET best == BestPerFile(rows, n - 1)
             row == rows[n]
             at == {i \in 1..Len(best) : best[i].path = row.path}
         IN  IF at = {} THEN Append(best, SemanticResult(row))
             ELSE [i \in 1..Len(best) |->
                    IF i \in at /\ row.sim > best[i].score
                    THEN SemanticResult(row) ELSE best[i]]

\* results.sort(key=score, reverse=True): a stable sort
RECURSIVE SortByScore(_)
SortByScore(results) ==
    IF results = <<>> THEN <<>>
    ELSE LET top == Max({results[i].score : i \in 1..Len(results)})
             first == Min({i \in 1..Len(results) : results[i].score = top})
         IN  <<results[first]>>
             \o SortByScore([i \in 1..(Len(results) - 1) |->
                                IF i < first THEN results[i] ELSE results[i + 1]])

\* the body of get_semantic inside its try; encode is what model.encode does
SemanticBody(T, search_type, encode) ==
    LET valid_exts == IF search_type = "image" THEN image_extensions ELSE text_extensions
        IsValid(row) == suffix(row.path) \in valid_exts
        rows == SelectSeq(T, IsValid)
        odd == {n \in 1..Len(rows) : Dim(rows[n].model_name) # Dim(QueryModel(search_type))}
    IN  IF ~loaded[search_type] THEN Returned(<<>>)
        ELSE IF encode = "raises" THEN Raised(<<>>)
        ELSE IF encode = "None" THEN Returned(<<>>)
        ELSE IF rows = <<>> THEN Returned(<<>>)
        ELSE IF odd # {} THEN Raised(SubSeq(rows, 1, Min(odd) - 1))
        ELSE [raised |-> FALSE, results |-> SortByScore(BestPerFile(rows, Len(rows))),
              scored |-> rows]

\* get_semantic: except Exception: log and return []
get_semantic(T, search_type, encode) ==
    LET body == SemanticBody(T, search_type, encode)
    IN  IF body.raised THEN [body EXCEPT !.raised = FALSE] ELSE body

\* normalize_scores: min-max to [0, 1], all 1.0 when the scores are equal
normalize_scores(result_list) ==
    IF result_list = <<>> THEN <<>>
    ELSE LET scores == {result_list[i].score : i \in 1..Len(result_list)}
         IN  [i \in 1..Len(result_list) |->
                [result_list[i] EXCEPT !.score =
                    IF Max(scores) = Min(scores) THEN Unit
                    ELSE ((@ - Min(scores)) * Unit) \div (Max(scores) - Min(scores))]]

\* merge_in(results) on combined_map, kept as the list of its values
RECURSIVE merge_in(_, _, _)
merge_in(combined, results, n) ==
    IF n > Len(results) THEN combined
    ELSE LET r == results[n]
             at == {i \in 1..Len(combined) : combined[i].path = r.path}
         IN  merge_in(IF at = {} THEN Append(combined, r)
                      ELSE [i \in 1..Len(combined) |->
                                IF i \in at
                                THEN [combined[i] EXCEPT !.score = (@ + r.score) \div 2,
                                                         !.match_type = "Hybrid"]
                                ELSE combined[i]],
                      results, n + 1)

\* r['score'] = (1 - quality_weight) * r['score'] + quality_weight * quality with
\* quality_weight 0.3 and quality 0.5: the SELECT on llm_analysis names columns
\* the table does not have, so quality_map stays empty
Weighted(results) ==
    [i \in 1..Len(results) |->
        [results[i] EXCEPT !.score = (7 * @ + 3 * (Unit \div 2)) \div 10]]

\* the lists hybrid_search can return: mmr_rerank_hybrid keeps every result
\* (num_results is greater than their number) in an order that depends on the
\* vectors, and the last sort, by score, is stable
Reranked(results) ==
    {order \in [1..Len(results) -> 1..Len(results)] :
        /\ \A i, j \in 1..Len(results) : i # j => order[i] # order[j]
        /\ \A i, j \in 1..Len(results) :
                i < j => results[order[i]].score >= results[order[j]].score}

\* combined_results of hybrid_search: both streams, normalised and merged
Combined(T, search_type, encode) ==
    merge_in(merge_in(<<>>, normalize_scores(get_lexical.results), 1),
             normalize_scores(get_semantic(T, search_type, encode).results), 1)

\* hybrid_search(query, search_type): what the call does, given the order
\* the reranking leaves; an exception that leaves a stream leaves the call
hybrid_search(T, search_type, encode, order) ==
    LET lex == get_lexical
        sem == get_semantic(T, search_type, encode)
        weighted == Weighted(Combined(T, search_type, encode))
    IN  [op |-> "hybrid_search", search_type |-> search_type, encode |-> encode,
         raised |-> lex.raised \/ sem.raised,
         lex |-> lex.results, sem |-> sem.results, scored |-> sem.scored,
         results |-> IF lex.raised \/ sem.raised THEN <<>>
                     ELSE [i \in 1..Len(weighted) |-> weighted[order[i]]]]

InitSearch ==
    /\ \E T \in Tables : db = [EmptyStore EXCEPT !.embeddings = T]
    /\ last_call = NoCall
    /\ \E l \in [ModelKeys -> BOOLEAN] : l["ocr"] /\ l["llm"] /\ loaded = l
    /\ orch = InitOrchestrator
    /\ worker = [i \in Threads |-> Idle]
    /\ released = [i \in Threads |-> 0]
    /\ dran = FALSE
    /\ disk = [p \in Paths |-> 0]
    /\ known_mtimes = [p \in Paths |-> 0]
    /\ pending_timers = {}
    /\ timers = [k \in TimerIds |-> NoTimer]
    /\ config = NoConfig
    /\ search = NoSearch
    /\ race = NoRace
    /\ shot = NoShot
    /\ hist = [p \in Paths |-> NoHistory]
    /\ events = 0

\* SearchEngine.hybrid_search(query, search_type)
HybridSearch(search_type, encode) ==
    /\ search = NoSearch
    /\ race = NoRace
    /\ shot = NoShot
    /\ \E order \in Reranked(Combined(db.embeddings, search_type, encode)) :
            search' = hybrid_search(db.embeddings, search_type, encode, order)
    /\ UNCHANGED <<db, last_call, config, sysvars_but_config>>

\* def hybrid_search(self, query, search_type, top_k=10, folder_path=None)
hybrid_search_parameters == <<"query", "search_type", "top_k", "folder_path">>
hybrid_search_required == 2

\* a call with so many positional arguments and these keyword arguments binds
\* to the parameters; Python raises TypeError when it does not
Binds(positional, keywords) ==
    LET names == {hybrid_search_parameters[n] : n \in 1..Len(hybrid_search_parameters)}
        given == {hybrid_search_parameters[n] : n \in 1..positional} \cup keywords
    IN  /\ positional <= Len(hybrid_search_parameters)
        /\ keywords \subseteq names
        /\ \A n \in 1..positional : hybrid_search_parameters[n] \notin keywords
        /\ \A n \in 1..hybrid_search_required : hybrid_search_parameters[n] \in given

\* SearchWorker.run: final_results = self.search_engine.hybrid_search(query_tuples,
\* top_k=..., folder_filter=..., source_filter=...), outside any try
SearchWorkerRun ==
    /\ search = NoSearch
    /\ race = NoRace
    /\ shot = NoShot
    /\ IF Binds(1, {"top_k", "folder_filter", "source_filter"})
       THEN \E order \in Reranked(Combined(db.embeddings, "text", "ok")) :
                search' = hybrid_search(db.embeddings, "text", "ok", order)
       ELSE search' = [op |-> "hybrid_search", search_type |-> "text", encode |-> "ok",
                       raised |-> TRUE, lex |-> <<>>, sem |-> <<>>, scored |-> <<>>,
                       results |-> <<>>]
    /\ last_call' = [op |-> "SearchWorker.run"]
    /\ UNCHANGED <<db, config, sysvars_but_config>>

SpecSearch ==
    InitSearch /\ [][\/ \E search_type \in {"text", "image"}, encode \in {"ok", "None", "raises"} :
                            HybridSearch(search_type, encode)
                      \/ SearchWorkerRun]_vars

(***************************************************************************)
(* SpecConfig: a Config is constructed on a data directory and read.       *)
(***************************************************************************)
InitConfig ==
    /\ db = EmptyStore
    /\ last_call = NoCall
    /\ loaded = [k \in ModelKeys |-> TRUE]
    /\ orch = InitOrchestrator
    /\ worker = [i \in Threads |-> Idle]
    /\ released = [i \in Threads |-> 0]
    /\ dran = FALSE
    /\ disk = [p \in Paths |-> 0]
    /\ known_mtimes = [p \in Paths |-> 0]
    /\ pending_timers = {}
    /\ timers = [k \in TimerIds |-> NoTimer]
    /\ \E file \in ConfigFiles : config = [NoConfig EXCEPT !.file = file]
    /\ search = NoSearch
    /\ race = NoRace
    /\ shot = NoShot
    /\ hist = [p \in Paths |-> NoHistory]
    /\ events = 0

\* Config.__init__(data_dir): self._settings = self._load()
ConfigInit ==
    /\ ~config.loaded
    /\ config' = [file |-> _load(config.file).file,
                  _settings |-> _load(config.file)._settings,
                  loaded |-> TRUE]
    /\ last_call' = [op |-> "Config", found |-> config.file]
    /\ UNCHANGED <<db, search, sysvars_but_config>>

\* config.get(key)
ConfigGet(key) ==
    /\ config.loaded
    /\ last_call' = [op |-> "Config.get", found |-> last_call.found, key |-> key,
                     returned |-> get(config._settings, key, None)]
    /\ UNCHANGED <<db, config, search, race, shot, sysvars_but_config>>

SpecConfig == InitConfig /\ [][ConfigInit \/ \E key \in ConfigKeys : ConfigGet(key)]_vars

(***************************************************************************)
(* SpecResume: resume_pending on the task tables of SpecLedger.            *)
(***************************************************************************)
ResumePending(task_type) ==
    /\ events < MaxResumes
    /\ SetWorld(resume_pending(World, task_type))
    /\ last_call' = [op |-> "resume_pending", task_type |-> task_type]
    /\ events' = events + 1
    /\ UNCHANGED <<loaded, timers, config, search, race, shot, worker, dran, disk, known_mtimes,
                   pending_timers, hist>>

SpecResume ==
    InitStore /\ [][NextTasks \/ TasksRetryAllFailed
                        \/ \E tt \in TaskTypes : ResumePending(tt)]_vars

NextGui ==
    \/ \E key \in GuiKeys : toggle_model(key)
    \/ retry_failed
    \/ \E service_key \in ServiceKeys : reset_service(service_key)

\* the user's actions and the orchestrator, an image in the folder
SpecGui == InitScanned("d/a.png") /\ [][NextOrchestrator \/ NextGui]_vars

(***************************************************************************)
(* Properties of the running system.                                       *)
(***************************************************************************)
\* nothing is queued, buffered, handed to the pool or running, no timer is pending
Quiet ==
    /\ orch.queue = EmptyBag
    /\ orch.text_buffer = <<>> /\ orch.image_buffer = <<>> /\ orch.delete_buffer = <<>>
    /\ orch.executor = <<>>
    /\ \A i \in Threads : worker[i] = Idle
    /\ pending_timers = {}

\* the releases of pool_semaphore made for the job that thread i is about to
\* leave: those the watchdog has made, and the one of the finally block
ReleasesAtExit(i) ==
    released[i] + (IF orch.active_jobs[KeyOf(worker[i].jobs[1])] # NoEntry THEN 1 ELSE 0)

\* C1: every job that held a pool_semaphore slot has had the slot released
\* exactly once when its thread leaves _execute_job_wrapper, also when jobs
\* share their (path, task_type).
C1_SlotReleasedOnce ==
    [][\A i \in Threads :
          (worker[i] # Idle /\ worker[i].kind = "job" /\ worker[i].pc = "finish"
              /\ worker'[i] = Idle)
          => ReleasesAtExit(i) = 1]_vars

\* C2: a job whose execution exceeds TASK_TIMEOUT is timed out by the watchdog
\* within TASK_TIMEOUT + 5 s: no entry of active_jobs grows older than that,
\* whatever the workers do.
C2_WatchdogInTime ==
    \A k \in Keys :
        orch.active_jobs[k] # NoEntry
        => now - orch.active_jobs[k].start_time <= TASK_TIMEOUT + CheckInterval

\* no EMBED job for p is anywhere but in the batch thread i runs
OnlyInBatchOf(p, i) ==
    \A j \in BagToSet(orch.queue) \cup Elems(orch.text_buffer) \cup Elems(orch.image_buffer)
            \cup UNION {Elems(t.jobs) : t \in Elems(orch.executor)}
            \cup UNION {Elems(worker[th].jobs) :
                            th \in {x \in Threads \ {i} : worker[x] # Idle}} :
        ~(j.path = p /\ j.task_type = "EMBED")

\* C3: when an EMBED batch has hung for more than TASK_TIMEOUT + 5 s, the
\* EMBED task of every path of the batch is FAILED.
C3_HungBatchFailed ==
    \A i \in Threads :
        (worker[i] # Idle /\ worker[i].kind = "embed" /\ worker[i].pc = "service"
            /\ now - worker[i].flushed > TASK_TIMEOUT + CheckInterval)
        => \A p \in PathsOf(worker[i].jobs) :
              OnlyInBatchOf(p, i)
              => \A r \in RowsOf(db.tasks, p, "EMBED") : r.status = "FAILED"

\* some row of some table of the store references p
Referenced(S, p) ==
    \/ p \in DOMAIN get_all_file_states(S)
    \/ p \in S.ocr_results
    \/ p \in S.llm_analysis
    \/ \E e \in S.embeddings : e.path = p
    \/ \E src \in Sources : S.search_index[<<p, src>>] > 0

\* C4: once a DELETE batch with p has executed, no row of any table references
\* p until the watcher submits p again.
C4_DeletedStaysDeleted ==
    \A p \in Paths : hist[p].executed => ~Referenced(db, p)

\* C5: orphan absence: every artifact row has the tasks row of its task type.
C5_NoOrphan ==
    /\ \A p \in db.ocr_results : HasTask(db.tasks, p, "OCR")
    /\ \A p \in db.llm_analysis : HasTask(db.tasks, p, "LLM")
    /\ \A e \in db.embeddings :
          HasTask(db.tasks, e.path, IF e.chunk_index >= 0 THEN "EMBED" ELSE "EMBED_LLM")

\* C6: zombie absence: every tasks row with status DONE has its artifact.
C6_NoZombie ==
    \A r \in db.tasks :
        r.status = "DONE"
        => CASE r.task_type = "OCR" -> r.path \in db.ocr_results
             [] r.task_type = "LLM" -> r.path \in db.llm_analysis
             [] r.task_type = "EMBED" ->
                    \E e \in db.embeddings : e.path = r.path /\ e.chunk_index >= 0
             [] r.task_type = "EMBED_LLM" ->
                    \E e \in db.embeddings : e.path = r.path /\ e.chunk_index < 0
             [] OTHER -> TRUE

\* C9: when a task was submitted twice with the same (task_type, path, mtime)
\* before either job was dequeued, the orchestrator is idle once all work has
\* run: no active job and all max_workers slots free, as after one submission.
C9_TwiceAsOnce ==
    (Quiet /\ \E p \in Paths : hist[p].twice)
    => /\ orch.pool_semaphore = MaxWorkers
       /\ \A k \in Keys : orch.active_jobs[k] = NoEntry

\* C10: when an ingested path was deleted, its DELETE batch ran, and the file
\* is back on disk and was reported by a live event, then once all work has
\* run the path has the task rows of a first ingestion.
C10_ReingestedAfterDelete ==
    \A p \in Paths :
        (Quiet /\ hist[p].stage = "reported" /\ disk[p] # 0)
        => /\ HasTask(db.tasks, p, "EMBED")
           /\ HasTask(db.tasks, p, "LLM")
           /\ suffix(p) \in image_extensions => HasTask(db.tasks, p, "OCR")

\* C11: of the Timers created for one path by a burst of events, each event
\* arriving while the Timer of the event before it is still sleeping, at most
\* one calls _submit_to_orchestrator
C11_OneRunPerBurst ==
    \A p \in Paths :
        Cardinality({k \in TimersOf(p) : timers[k].pc \in {"function", "finished"}}) <= 1

\* C12: when the initial scan finds a valid file on disk whose path is in the
\* store and whose mtime is within 1 s of the mtime its shotgun set was last
\* enqueued against (the file_mtime of its EMBED row), it submits no task for it
C12_UnmodifiedNotRequeued ==
    [][\A p \in Paths :
          (events' # events /\ hist'[p].stage = "modified")
            => \A r \in RowsOf(db.tasks, p, "EMBED") : Abs(disk'[p] - r.file_mtime) > 1]_vars

\* C13: whenever a pool thread is executing an EMBED_LLM job (it has passed
\* the loaded check of _execute_job and is in the service call), the store
\* holds an llm_analysis row for the job's path, so get_llm_result returns it
C13_SummaryPresent ==
    \A i \in Threads :
        (/\ worker[i] # Idle
         /\ worker[i].kind = "job"
         /\ worker[i].pc = "service"
         /\ worker[i].jobs[1].task_type = "EMBED_LLM")
            => get_llm_result(db, worker[i].jobs[1].path)

\* the backend the claim names for a task: 'ocr' for OCR, the text embedder
\* for EMBED of a text file and for EMBED_LLM, the image embedder for EMBED
\* of an image file, 'llm' for LLM, none for DELETE
BackendLoaded(task_type, path) ==
    CASE task_type = "OCR" -> loaded["ocr"]
      [] task_type = "EMBED" ->
            IF suffix(path) \in text_extensions THEN loaded["text"] ELSE loaded["image"]
      [] task_type = "EMBED_LLM" -> loaded["text"]
      [] task_type = "LLM" -> loaded["llm"]
      [] task_type = "DELETE" -> TRUE

\* C14: submit_task leaves the task's row PENDING and puts a Job on the queue
\* exactly when the backend the task type needs is loaded
C14_QueuedIffBackendLoaded ==
    [][\A task_type \in TaskTypes, path \in Paths, mtime \in 1..MaxMtime :
          SubmitTask(task_type, path, mtime)
            => /\ \E r \in RowsOf(db'.tasks, path, task_type) : r.status = "PENDING"
               /\ (orch'.queue # orch.queue) <=> BackendLoaded(task_type, path)]_vars

\* C15: when the model a job needs was unloaded between the loaded check of
\* _execute_job and the service's own check, the execution leaves the task's
\* row as it found it (PENDING) and writes no artifact row
C15_UnloadedStaysPending ==
    [][\A i \in Threads :
          (/\ worker[i] # Idle
           /\ worker[i].kind = "job"
           /\ worker[i].pc = "finish"
           /\ worker[i].result = "unloaded"
           /\ worker'[i] = Idle)
            => LET job == worker[i].jobs[1]
               IN  /\ RowsOf(db'.tasks, job.path, job.task_type)
                        = RowsOf(db.tasks, job.path, job.task_type)
                   /\ db'.ocr_results = db.ocr_results
                   /\ db'.llm_analysis = db.llm_analysis]_vars

\* C16: when the backend call of a job has raised, the thread leaving
\* _execute_job_wrapper leaves the task's row FAILED and the slot the job
\* held has been released once
C16_RaisedFailsAndReleases ==
    [][\A i \in Threads :
          (/\ worker[i] # Idle
           /\ worker[i].kind = "job"
           /\ worker[i].pc = "finish"
           /\ worker[i].result = "error"
           /\ worker'[i] = Idle)
            => LET job == worker[i].jobs[1]
               IN  /\ RowsOf(db'.tasks, job.path, job.task_type) # {}
                   /\ \A r \in RowsOf(db'.tasks, job.path, job.task_type) :
                            r.status = "FAILED"
                   /\ ReleasesAtExit(i) = 1]_vars

\* C17: remove_tasks_bulk is all-or-nothing: when a call on a non-empty list
\* has returned, either no row of the five tables references one of its
\* paths, or it returned False and the five tables are as they were before
C17_BulkAllOrNothing ==
    [][(/\ last_call'.op = "remove_tasks_bulk"
        /\ last_call'.paths # {}
        /\ last_call'.returned \in {"True", "False"})
          => \/ \A p \in last_call'.paths : ~Referenced(db', p)
             \/ /\ last_call'.returned = "False"
                /\ [db' EXCEPT !.triggers = {}] = [db EXCEPT !.triggers = {}]]_vars

\* C18: when remove_tasks_bulk or reset_service_data has returned (normally,
\* on an empty list, or after a statement raised), both delete triggers exist
C18_TriggersRestored ==
    (last_call.op \in {"remove_tasks_bulk", "reset_service_data"}
        /\ last_call.returned # "raised")
      => db.triggers = DeleteTriggers

\* the rows of E for the paths in ps whose chunk_index is in the summary
\* class (chunk_index < 0) or in the content class (chunk_index >= 0)
ClassRows(E, ps, summary) ==
    {e \in E : e.path \in ps /\ (e.chunk_index < 0) = summary}

C20_SweepHeals ==
    [][last_call'.op = "validate_integrity"
          => /\ Orphans(db') = {}
             /\ Zombies(db') = {}
             /\ db'.ocr_results = {p \in db.ocr_results : HasTask(db.tasks, p, "OCR")}
             /\ db'.llm_analysis = {p \in db.llm_analysis : HasTask(db.tasks, p, "LLM")}
             /\ db'.embeddings = {e \in db.embeddings : <<"EMBED", e>> \notin Orphans(db)}
             /\ {<<r.path, r.task_type>> : r \in db'.tasks}
                    = {<<r.path, r.task_type>> : r \in db.tasks}
             /\ \A r \in db.tasks : ArtifactOf(db, r) => r \in db'.tasks]_vars

\* C20 witness: a sweep has completed on a store that held an orphan and a zombie
C20_Witness ==
    /\ last_call.op = "validate_integrity"
    /\ last_call.orphans > 0
    /\ last_call.zombies > 0

\* C21: retry_all_failed sets every FAILED row of tasks to PENDING and changes
\* nothing else: DONE and PENDING rows keep their status, every row keeps
\* its file_mtime, and no row is created or removed
C21_RetryResetsFailedOnly ==
    [][last_call'.op = "retry_all_failed"
          => /\ db'.tasks = {IF r.status = "FAILED"
                                THEN [r EXCEPT !.status = "PENDING"] ELSE r : r \in db.tasks}
             /\ Cardinality(db'.tasks) = Cardinality(db.tasks)
             /\ \A f \in {"ocr_results", "embeddings", "llm_analysis",
                           "search_index", "triggers"} : db'[f] = db[f]]_vars

\* C21 witness: retry_all_failed has acted on a table that held a FAILED row
\* beside a DONE row
C21_Witness ==
    /\ last_call.op = "retry_all_failed"
    /\ last_call.failed > 0
    /\ \E r \in db.tasks : r.status = "DONE"

\* C22: resume_pending(task_type) puts on the queue exactly one Job at
\* priority 2 for each PENDING row of tasks with that task_type, none for a
\* row of another type or status, and changes no row of the store
C22_ResumeQueuesPendingOfType ==
    [][(last_call'.op = "resume_pending" /\ events' # events)
          => /\ orch'.queue = orch.queue (+) SetToBag(
                    {Job(2, r.task_type, r.path) :
                        r \in {x \in db.tasks : /\ x.status = "PENDING"
                                                /\ x.task_type = last_call'.task_type}})
             /\ db' = db]_vars

\* C22 witness: resume_pending("LLM") has queued the PENDING LLM row of one
\* path while the other path's LLM row is DONE and an OCR row is PENDING
C22_Witness ==
    /\ last_call.op = "resume_pending"
    /\ last_call.task_type = "LLM"
    /\ CopiesIn(Job(2, "LLM", "d/a.png"), orch.queue) = 1
    /\ \E r \in db.tasks : r.path = "d/b.txt" /\ r.task_type = "LLM" /\ r.status = "DONE"
    /\ \E r \in db.tasks : r.task_type = "OCR" /\ r.status = "PENDING"
    /\ \A j \in BagToSet(orch.queue) : j.task_type = "LLM" /\ j.path = "d/a.png"

\* C23: whenever the dispatcher dequeues a job, no job of strictly smaller
\* priority value is on the queue at that moment (any job of the least
\* priority value may be the one taken)
C23_LeastPriorityFirst ==
    [][_dispatch_loop
          => LET queued == BeforeGet(World).orch.queue
             IN  \A job \in BagToSet(queued) :
                    CopiesIn(job, orch'.queue) < CopiesIn(job, queued)
                        => \A j \in BagToSet(queued) : j.priority >= job.priority]_vars

\* C23 witness: a job resubmitted at priority 1 has been dequeued and handed
\* to the pool while a job of priority 2 is still on the queue
C23_Witness ==
    /\ dran
    /\ \E n \in 1..Len(orch.executor) :
            /\ orch.executor[n].kind = "job"
            /\ orch.executor[n].jobs[1].priority = 1
    /\ \E j \in BagToSet(orch.queue) : j.priority = 2

\* C24: Config.get(key) returns, for a recognized key, the value config.json
\* gave the key when the file defined it and the default otherwise (the
\* default of sync_directories being the one _load resolves), whether the
\* file was absent, had only some of the keys, or was not JSON; the unknown
\* keys of the file do not matter
C24_MissingKeysDefault ==
    (last_call.op = "Config.get" /\ last_call.key \in RecognizedKeys)
        => LET found == last_call.found
               key == last_call.key
           IN  last_call.returned =
                    IF found.kind = "json" /\ found.data[key] # Absent
                    THEN found.data[key] ELSE Defaults[key]

\* the zero-based rank of path in a stream's list, -1 when the list lacks it
RankIn(stream, path) ==
    Max({-1} \cup {i - 1 : i \in {n \in 1..Len(stream) : stream[n].path = path}})

\* the Reciprocal Rank Fusion score of path with k = 60, in the units of Unit
Fused(path) ==
    (IF RankIn(search.lex, path) >= 0 THEN Unit \div (60 + RankIn(search.lex, path) + 1) ELSE 0)
    + (IF RankIn(search.sem, path) >= 0 THEN Unit \div (60 + RankIn(search.sem, path) + 1) ELSE 0)

\* C25: the score hybrid_search gives a path is the sum, over the streams
\* that contain the path, of 1 / (60 + r + 1) for its zero-based rank r in the
\* stream, and the results are ordered by that score
C25_ReciprocalRankFusion ==
    (search.op = "hybrid_search" /\ ~search.raised)
        => /\ \A i \in 1..Len(search.results) :
                    search.results[i].score = Fused(search.results[i].path)
           /\ \A i, j \in 1..Len(search.results) :
                    i < j => Fused(search.results[i].path) >= Fused(search.results[j].path)

\* C26: hybrid_search never raises; a stream that fails contributes an empty
\* list and the results of the other stream are returned; when both streams
\* fail, or the model is not loaded, the result is the empty list
C26_SearchNeverRaises ==
    search.op = "hybrid_search"
        => LET body == SemanticBody(db.embeddings, search.search_type, search.encode)
           IN  /\ ~search.raised
               /\ search.lex = <<>>
               /\ body.raised => search.sem = <<>>
               /\ ~body.raised => search.sem = body.results
               /\ {search.results[i].path : i \in 1..Len(search.results)}
                    = {search.sem[i].path : i \in 1..Len(search.sem)}
               /\ (body.raised \/ ~loaded[search.search_type]) => search.results = <<>>

\* C27: the semantic stream takes the dot product of the query vector only
\* with rows whose model_name is the name of the model that embedded the query
C27_SameModelOnly ==
    search.op = "hybrid_search"
        => \A n \in 1..Len(search.scored) :
                search.scored[n].model_name = QueryModel(search.search_type)

\* C28: two jobs with the same (path, task_type) are never executing on
\* workers at the same time, so every executing job has an entry of
\* active_jobs of its own
C28_OneExecutionPerKey ==
    \A i, j \in Threads :
        (i # j /\ worker[i] # Idle /\ worker[j] # Idle
            /\ worker[i].kind = "job" /\ worker[j].kind = "job")
        => KeyOf(worker[i].jobs[1]) # KeyOf(worker[j].jobs[1])

\* the pool tasks submitted to the executor and not yet finished
Unfinished == Len(orch.executor) + Cardinality({i \in Threads : worker[i] # Idle})

\* C29: every task on the worker pool, a single job or an EMBED or DELETE
\* batch, holds one pool_semaphore slot while it runs: the tasks submitted and
\* not yet finished never exceed max_workers, and no single job waits in the
\* executor while a batch task occupies a thread
C29_BatchHoldsSlot ==
    /\ Unfinished <= MaxWorkers
    /\ (\E n \in 1..Len(orch.executor) : orch.executor[n].kind = "job")
            => \A i \in Threads : worker[i] # Idle => worker[i].kind = "job"

\* C30: a job placed in a text, image or delete buffer that is not full is
\* handed to the worker pool a bounded time after flush_timeout, whatever
\* the workers are doing: a buffer that holds a job is eventually emptied
C30_BufferFlushedInTime ==
    /\ (orch.text_buffer # <<>>) ~> (orch.text_buffer = <<>>)
    /\ (orch.image_buffer # <<>>) ~> (orch.image_buffer = <<>>)
    /\ (orch.delete_buffer # <<>>) ~> (orch.delete_buffer = <<>>)

\* the jobs of a list, with how often each occurs
BagOf(jobs) ==
    [j \in {jobs[n] : n \in 1..Len(jobs)} |-> Cardinality({n \in 1..Len(jobs) : jobs[n] = j})]

\* the jobs waiting in the three buffers of an orchestrator memory
Buffered(o) == BagOf(o.text_buffer \o o.image_buffer \o o.delete_buffer)

\* the jobs of a list of pool tasks
RECURSIVE Batched(_)
Batched(tasks) ==
    IF tasks = <<>> THEN EmptyBag ELSE BagOf(Head(tasks).jobs) (+) Batched(Tail(tasks))

\* C31: a buffered EMBED or DELETE job is handed to the pool in exactly one
\* batch: only a dispatcher iteration changes the buffers; in an iteration
\* the jobs in the buffers and in the batches it submits are the jobs that
\* were in the buffers and the dequeued job it buffers; a batch holds at most
\* BATCH_SIZE jobs, and no buffer is left holding BATCH_SIZE jobs
C31_BatchedOnce ==
    [][LET buffers(o) == <<o.text_buffer, o.image_buffer, o.delete_buffer>>
           submitted == SubSeq(orch'.executor, Len(orch.executor) + 1, Len(orch'.executor))
           taken == orch.queue (-) orch'.queue
           buffered == [j \in {x \in BagToSet(taken) :
                                    \/ x.task_type = "DELETE"
                                    \/ /\ x.task_type = "EMBED"
                                       /\ suffix(x.path) \in image_extensions \cup text_extensions}
                          |-> taken[j]]
       IN  /\ buffers(orch') # buffers(orch) => _dispatch_loop
           /\ _dispatch_loop =>
                /\ Len(orch'.executor) >= Len(orch.executor)
                /\ SubSeq(orch'.executor, 1, Len(orch.executor)) = orch.executor
                /\ Buffered(orch') (+) Batched(submitted) = Buffered(orch) (+) buffered
                /\ \A n \in 1..Len(submitted) : Len(submitted[n].jobs) <= BATCH_SIZE
                /\ \A n \in 1..3 : Len(buffers(orch')[n]) < BATCH_SIZE]_vars

\* a full batch of two buffered jobs waits for a pool thread
C31_Witness ==
    \E n \in 1..Len(orch.executor) :
        /\ orch.executor[n].kind \in {"embed", "delete"}
        /\ Len(orch.executor[n].jobs) = BATCH_SIZE

\* C32: when save_embeddings raises while inserting, the error reaches the
\* caller and the embeddings and search_index tables of the database stay as
\* they were before the call, also after the commit of the next store call
C32_FailedSaveLeavesTables ==
    [][(/\ last_call.op = "save_embeddings"
        /\ last_call.raised
        /\ last_call.deleted # {}
        /\ last_call'.op = "add_or_update_task")
          => /\ last_call'.committed.embeddings = last_call.committed.embeddings
             /\ last_call'.committed.search_index = last_call.committed.search_index]_vars

\* C33: every DELETE job on the queue has priority 0, whether the initial
\* scan or a live delete or move event submitted it, and the dispatcher
\* dequeues no other job while a DELETE job is on the queue
C33_DeleteFirst ==
    [][/\ \A j \in BagToSet(orch'.queue) : j.task_type = "DELETE" => j.priority = 0
       /\ _dispatch_loop =>
            \A j \in BagToSet(orch.queue (-) orch'.queue) :
                j.task_type # "DELETE" =>
                    \A d \in BagToSet(orch.queue) : d.task_type # "DELETE"]_vars

\* the task types _queue_all_tasks submits for a file
ShotgunTypes(f) ==
    IF suffix(f) \in image_extensions THEN {"EMBED", "LLM", "OCR"} ELSE {"EMBED", "LLM"}

\* C34: after the initial scan, every valid file on disk that has no row in
\* the store, or whose mtime differs by more than 1 s from the file_mtime of
\* a shotgun row of it, has its EMBED and LLM (and, for an image, OCR) rows
\* PENDING with the disk mtime and the jobs queued, and every path of the
\* store that is not a valid file on disk has a DELETE job queued at priority 0
C34_ScanSubmits ==
    [][InitialScan =>
        \A f \in Paths :
            LET rows == {r \in db.tasks : r.path = f}
                found == disk[f] # 0 /\ is_valid_file(f)
                modified == \E r \in rows : /\ r.task_type \in ShotgunTypes(f)
                                              /\ Abs(disk[f] - r.file_mtime) > 1
            IN  /\ found /\ (rows = {} \/ modified) =>
                    \A tt \in ShotgunTypes(f) :
                        /\ \E r \in RowsOf(db'.tasks, f, tt) :
                                r.status = "PENDING" /\ r.file_mtime = disk[f]
                        /\ Job(2, tt, f) \in BagToSet(orch'.queue)
                /\ ~found /\ rows # {} => Job(0, "DELETE", f) \in BagToSet(orch'.queue)]_vars

\* C35: once the watchdog has removed a running job from active_jobs and set
\* its task FAILED, a later step of the abandoned pool thread neither changes
\* the status of that task nor writes an artifact, as long as the task is FAILED
C35_AbandonedWorkerSilent ==
    [][\A i \in Threads :
          (/\ worker[i] # Idle
           /\ worker[i].kind = "job"
           /\ released[i] > 0
           /\ \A r \in RowsOf(db.tasks, worker[i].jobs[1].path, worker[i].jobs[1].task_type) :
                    r.status = "FAILED"
           /\ worker'[i] # worker[i])
            => LET job == worker[i].jobs[1]
               IN  /\ RowsOf(db'.tasks, job.path, job.task_type)
                        = RowsOf(db.tasks, job.path, job.task_type)
                   /\ db'.ocr_results = db.ocr_results
                   /\ db'.llm_analysis = db.llm_analysis
                   /\ db'.embeddings = db.embeddings
                   /\ db'.search_index = db.search_index]_vars

\* C36: when a submit_task call and the load of the task's backend followed
\* by resume_pending have both finished, in whatever order their statements
\* ran, a Job for the submitted task is on the queue
C36_SubmitNotLost ==
    (/\ race.submit > Len(submit_task_order)
     /\ race.toggle = "done"
     /\ \E n \in 1..Len(key_map(race.key)) : key_map(race.key)[n] = race.task_type)
        => \E j \in BagToSet(orch.queue) : j.task_type = race.task_type /\ j.path = race.path

\* both have finished, submit_task found the backend unloaded and resume_pending
\* has queued the task
C36_Witness ==
    /\ race.submit > Len(submit_task_order)
    /\ race.toggle = "done"
    /\ ~race.available
    /\ Job(2, race.task_type, race.path) \in BagToSet(orch.queue)

\* every task row is DONE or FAILED and the orchestrator is idle: empty queue,
\* empty buffers, nothing handed to the pool or running, no entry in
\* active_jobs and max_workers free slots of pool_semaphore
IdleAndSettled ==
    /\ \A r \in db.tasks : r.status \in {"DONE", "FAILED"}
    /\ orch.queue = EmptyBag
    /\ orch.text_buffer = <<>> /\ orch.image_buffer = <<>> /\ orch.delete_buffer = <<>>
    /\ orch.executor = <<>>
    /\ \A i \in Threads : worker[i] = Idle
    /\ \A k \in Keys : orch.active_jobs[k] = NoEntry
    /\ orch.pool_semaphore = MaxWorkers

\* C37: with all backends loaded and every backend call and store write
\* returning, every task submitted through submit_task eventually reaches DONE
\* or FAILED and the orchestrator returns to idle: empty queue, empty buffers,
\* no entry in active_jobs and max_workers free semaphore slots.
C37_ReturnsToIdle == []<>IdleAndSettled

\* the task rows a step sets to PENDING: PENDING after it, in another status before
SetToPending ==
    {r \in db'.tasks : /\ r.status = "PENDING"
                       /\ \E q \in RowsOf(db.tasks, r.path, r.task_type) : q.status # "PENDING"}

\* C38: every task row that an administrative action (retry_failed or
\* reset_service run by DatabaseActionWorker) sets to PENDING is on the
\* orchestrator queue when DatabaseActionWorker.run returns, if its backend is
\* loaded.
C38_ResetRowsQueued ==
    [][(retry_failed \/ \E service_key \in ServiceKeys : reset_service(service_key))
          => \A r \in SetToPending :
                is_model_available(r.task_type)
                => Job(1, r.task_type, r.path) \in BagToSet(orch'.queue)]_vars

\* C39: when the debounce timer of a valid file that is on disk and has no
\* task rows in the store fires, _submit_to_orchestrator makes the shotgun
\* submission for the file: the _known_mtimes cache does not suppress the event.
C39_NoRowsSubmitted ==
    [][\A x \in Paths :
          (/\ TimerFire(x)
           /\ disk[x] # 0 /\ is_valid_file(x)
           /\ {r \in db.tasks : r.path = x} = {})
          => \A tt \in ShotgunTypes(x) :
                /\ \E r \in RowsOf(db'.tasks, x, tt) :
                        r.status = "PENDING" /\ r.file_mtime = disk[x]
                /\ Job(2, tt, x) \in BagToSet(orch'.queue)]_vars

\* C40: a _loop thread that unload() has stopped does not start another
\* capture: after any sequence of load() and unload() calls it never again
\* passes the test of its while loop, so that at most one capture loop goes on.
C40_StoppedLoopStaysStopped ==
    [][\A i \in LoopIds :
          shot.loops[i].stopped
          => ~(shot.loops[i].pc = "test" /\ shot'.loops[i].pc = "body")]_vars

=========================================================================
